---- MODULE Spec2Model ----
(***************************************************************************)
(* Model of labscript_core: the Shot / Device / Instruction tree of        *)
(* bases.py, devices.py, instructions.py and shot.py, and the phase        *)
(* controller of bases.py (HasParent.enforce_phase, HasParent.set_phase).  *)
(*                                                                         *)
(* Every Python object is a node id: the Shot is 0, devices are numbered   *)
(* in creation order from 1, instructions follow the devices.  An          *)
(* operation is a function from the state record to the state record it    *)
(* leaves behind; a raised exception is the field err, and everything the  *)
(* handler assigned before raising stays assigned.                         *)
(*                                                                         *)
(* Shot.__init__ (shot.py:30) reads ADD_DEVICES from the phase enumeration *)
(* of utils.py, which has no such member, and raises AttributeError: the   *)
(* initial state is the Shot it leaves behind, its phase None, and         *)
(* set_phase(ADD_DEVICES), with the enumeration of bases.py, is the first  *)
(* step of every program that builds a tree.                               *)
(***************************************************************************)
EXTENDS Integers, Sequences, FiniteSets, TLC

\* ------------------------------------------------------------------ bounds
\* Device objects created (the rejected ones count), instruction objects
\* created, and the length of Shot.devices up to which Shot.add_device is
\* called on an existing device.
MaxDevices == 3
MaxInstructions == 1
MaxShotChildren == 2

\* The entries the child lists of the devices, and the instruction lists of
\* the owners, hold beyond the number of objects that are created: add_device
\* on a device and add_instruction are called with an existing object while
\* the lists together hold fewer entries than that.
MaxReAdded == 1

\* The device objects created when a clock tree is built (a Pseudoclock
\* with a ClockLine, its ClockableDevices and an Output below them), and the
\* instruction objects created when instructions are issued on a small tree.
MaxClockDevices == 5
MaxIssuedInstructions == 3

\* The largest nominal time an instruction is issued at.
MaxTime == 1

\* The largest clock_minimum_period, timebase and clock_minimum_trigger a
\* Pseudoclock or ClockableDevice is constructed with.
MaxPeriod == 3
MaxTimebase == 2
MaxTrigger == 2

\* The failed calls of Shot.start that are counted.
MaxFailedStarts == 2

\* The device objects created when both passes are run on a clock tree.
MaxPassDevices == 3

\* The device objects created when clock trees are built below two Shots.
MaxAncestryDevices == 5

\* The device objects created below two Shots together.
MaxTwoShotDevices == 2

\* The instances registered with the controller of enforce_phase.py, and how
\* often one decorated function is called on one instance.
MaxInstances == 2
MaxCalls == 2

\* The device objects created when nothing is enforced.
MaxUnenforcedDevices == 1

\* The device objects created below the owners of instructions.
MaxPipelineDevices == MaxDevices - 1

\* The device objects created when every operation of the API is called in
\* any phase and any order, and the instruction objects created when
\* instructions are issued, re-added and converted in any phase.
MaxApiDevices == 1
MaxNumberedInstructions == 2

\* --------------------------------------------------------------- constants
SHOT == 0
NoneVal == -1
Unset == -2

ADD_DEVICES == 0
ESTABLISH_COMMON_LIMITS == 1
ESTABLISH_INITIAL_ATTRIBUTES == 2
ADD_INSTRUCTIONS == 3
CONVERT_TIMING == 4
CHECK_INSTRUCTIONS_VALID == 5

phase_enum == ADD_DEVICES..CHECK_INSTRUCTIONS_VALID

DeviceIds == 1..MaxClockDevices
InstructionIds ==
    (MaxClockDevices + 1)..(MaxClockDevices + MaxIssuedInstructions)

\* A second Shot object of the same program, the last node id.
OTHER_SHOT == MaxClockDevices + MaxIssuedInstructions + 1
ShotIds == {SHOT, OTHER_SHOT}
NodeIds == 0..OTHER_SHOT

DeviceClasses ==
    {"Device", "StaticDevice", "Output", "StaticOutput", "TriggerableDevice",
     "Trigger", "ClockableDevice", "ClockLine", "Pseudoclock",
     "PseudoclockDevice"}

InstructionClasses == {"Wait", "Function", "Constant", "Static"}

\* The nominal times t instructions are issued at.
Times == 0..MaxTime

\* Durations are whole numbers of a time unit, UnitsPerSecond of them to the
\* second: int(x) of a duration x, which Python takes of the value in
\* seconds, is x \div UnitsPerSecond.
UnitsPerSecond == 2
int(x) == x \div UnitsPerSecond

\* The numerical constructor arguments of device class c: a Pseudoclock is
\* given the timebase MaxTimebase and the clock_minimum_period of the fast
\* ClockableDevice; a ClockableDevice is a fast one (period 1, trigger 1) or
\* a slow one (period MaxPeriod, trigger MaxTrigger).
Periods == {1}

DeviceArgs(c) ==
    IF c = "Pseudoclock"
    THEN [clock_minimum_period : Periods, timebase : {MaxTimebase},
          clock_minimum_trigger : {Unset}]
    ELSE IF c = "ClockableDevice"
    THEN {[clock_minimum_period |-> 1, timebase |-> Unset,
           clock_minimum_trigger |-> 1],
          [clock_minimum_period |-> MaxPeriod, timebase |-> Unset,
           clock_minimum_trigger |-> MaxTrigger]}
    ELSE [clock_minimum_period : {Unset}, timebase : {Unset},
          clock_minimum_trigger : {Unset}]

\* The instances of a class whose methods are decorated with the
\* enforce_phase of enforce_phase.py; all belong to one shot.
Instances == 1..MaxInstances

\* The phases that class declares its methods for.
DeclaredPhases == {ADD_DEVICES, ESTABLISH_COMMON_LIMITS}

\* The decorated methods of that class, one for each way of instantiating
\* the decorator: enforce_phase(phase, exactly_once).
Functions == [phase : DeclaredPhases, exactly_once : BOOLEAN]

ExactlyOnceMethods ==
    {"establish_common_limits", "establish_initial_attributes",
     "convert_timing"}

\* The list-valued attribute Shot.all_devices while it still holds None.
NoneSeq == <<NoneVal>>

VARIABLES
    phase,                \* Shot.phase of the Shot SHOT
    devices,              \* HasDevices.devices of every node
    instructions,         \* HasInstructions.instructions of every node
    cls,                  \* the class of every object ("none": not created)
    parent,               \* HasParent.parent
    shot,                 \* HasParent.shot
    pseudoclock,          \* Device.pseudoclock / Instruction.pseudoclock
    registry,             \* HasParent.__instances_by_shot[SHOT], as a set:
                          \* the list is only ever iterated in full
    other,                \* the same attributes of the Shot OTHER_SHOT: its
                          \* phase, its entry of __instances_by_shot, its
                          \* master_pseudoclock, all_devices,
                          \* all_pseudoclocks and total_instructions
    called,               \* HasParent._required_methods_called_by_phase
    ran,                  \* how often each exactly-once method body ran
    master_pseudoclock,   \* Shot.master_pseudoclock
    all_devices,          \* Shot.all_devices
    all_pseudoclocks,     \* Shot.all_pseudoclocks
    total_instructions,   \* Shot.total_instructions
    instruction_number,   \* Instruction.instruction_number
    t,                    \* Instruction.t
    quantised_t,          \* Instruction.quantised_t
    clock_minimum_period,
        \* Pseudoclock / ClockLine / ClockableDevice
    timebase,
        \* Pseudoclock.timebase, ClockLine.timebase
    clock_minimum_trigger,
        \* ClockableDevice.clock_minimum_trigger
    common_clock_minimum_period,
        \* ClockLine.common_clock_minimum_period
    common_clock_minimum_trigger,
        \* ClockLine.common_clock_minimum_trigger
    clock_period_limiting_device,
        \* ClockLine.clock_period_limiting_device
    clock_trigger_limiting_device,
        \* ClockLine.clock_trigger_limiting_device
    failed_starts,        \* how many calls of Shot.start have raised
    ENFORCE_PHASE,        \* bases.ENFORCE_PHASE when the classes were defined
    ep,                   \* the module enforce_phase.py: its ENFORCE_PHASE,
                          \* enforce_phase.instances_by_shot[shot] (empty:
                          \* no entry), enforce_phase.called_methods, the
                          \* phase of the instances' shot, and how often
                          \* the body of each decorated function has run
    log,                  \* the pass events of the last operation, in order
    result,               \* the list the last operation returned, if any
    err,                  \* the exception the last operation raised, or "ok"
    op                    \* the last operation invoked

vars == <<phase, devices, instructions, cls, parent, shot, pseudoclock,
          registry, other, called, ran, master_pseudoclock, all_devices, all_pseudoclocks,
          total_instructions, instruction_number, t, quantised_t,
          clock_minimum_period, timebase, clock_minimum_trigger,
          common_clock_minimum_period, common_clock_minimum_trigger,
          clock_period_limiting_device, clock_trigger_limiting_device,
          failed_starts, ENFORCE_PHASE, ep, log, result, err, op>>

\* The state as one record, and its assignment to the next state.
Cur ==
    [phase |-> phase, devices |-> devices, instructions |-> instructions,
     cls |-> cls, parent |-> parent, shot |-> shot,
     pseudoclock |-> pseudoclock, registry |-> registry, other |-> other,
     called |-> called, ran |-> ran,
     master_pseudoclock |-> master_pseudoclock, all_devices |-> all_devices,
     all_pseudoclocks |-> all_pseudoclocks,
     total_instructions |-> total_instructions,
     instruction_number |-> instruction_number, t |-> t,
     quantised_t |-> quantised_t,
     clock_minimum_period |-> clock_minimum_period,
     timebase |-> timebase,
     clock_minimum_trigger |-> clock_minimum_trigger,
     common_clock_minimum_period |-> common_clock_minimum_period,
     common_clock_minimum_trigger |-> common_clock_minimum_trigger,
     clock_period_limiting_device |-> clock_period_limiting_device,
     clock_trigger_limiting_device |-> clock_trigger_limiting_device,
     failed_starts |-> failed_starts, ENFORCE_PHASE |-> ENFORCE_PHASE,
     ep |-> ep, log |-> << >>,
     result |-> NoneSeq, err |-> "ok"]

Apply(s, name) ==
    /\ phase' = s.phase
    /\ devices' = s.devices
    /\ instructions' = s.instructions
    /\ cls' = s.cls
    /\ parent' = s.parent
    /\ shot' = s.shot
    /\ pseudoclock' = s.pseudoclock
    /\ registry' = s.registry
    /\ other' = s.other
    /\ called' = s.called
    /\ ran' = s.ran
    /\ master_pseudoclock' = s.master_pseudoclock
    /\ all_devices' = s.all_devices
    /\ all_pseudoclocks' = s.all_pseudoclocks
    /\ total_instructions' = s.total_instructions
    /\ instruction_number' = s.instruction_number
    /\ t' = s.t
    /\ quantised_t' = s.quantised_t
    /\ clock_minimum_period' = s.clock_minimum_period
    /\ timebase' = s.timebase
    /\ clock_minimum_trigger' = s.clock_minimum_trigger
    /\ common_clock_minimum_period' = s.common_clock_minimum_period
    /\ common_clock_minimum_trigger' = s.common_clock_minimum_trigger
    /\ clock_period_limiting_device' = s.clock_period_limiting_device
    /\ clock_trigger_limiting_device' = s.clock_trigger_limiting_device
    /\ failed_starts' = s.failed_starts
    /\ ENFORCE_PHASE' = s.ENFORCE_PHASE
    /\ ep' = s.ep
    /\ log' = s.log
    /\ result' = s.result
    /\ err' = s.err
    /\ op' = name

Raise(s, e) == [s EXCEPT !.err = e]

\* ---------------------------------------------------------- class hierarchy
Bases(c) ==
    CASE c = "Shot" -> {"HasDevices", "HasInstructions"}
      [] c = "Device" -> {"HasDevices"}
      [] c = "HasDevices" -> {"HasChildren"}
      [] c = "HasInstructions" -> {"HasChildren"}
      [] c = "HasChildren" -> {"HasParent"}
      [] c = "Instruction" -> {"HasParent"}
      [] c = "OutputInstruction" -> {"Instruction"}
      [] c = "Output" -> {"Device", "HasInstructions"}
      [] c = "StaticDevice" -> {"Device"}
      [] c = "StaticOutput" -> {"Output"}
      [] c = "TriggerableDevice" -> {"Device"}
      [] c = "Trigger" -> {"Output"}
      [] c = "ClockableDevice" -> {"Device"}
      [] c = "ClockLine" -> {"Device"}
      [] c = "Pseudoclock" -> {"Device"}
      [] c = "PseudoclockDevice" -> {"TriggerableDevice"}
      [] c = "Wait" -> {"Instruction"}
      [] c = "Function" -> {"OutputInstruction"}
      [] c = "Constant" -> {"Function"}
      [] c = "Static" -> {"OutputInstruction"}
      [] OTHER -> {}

RECURSIVE isinstance(_, _)
isinstance(c, k) == c = k \/ \E b \in Bases(c) : isinstance(b, k)

allowed_devices(c) ==
    CASE c = "Shot" -> {"PseudoclockDevice", "StaticDevice"}
      [] c = "Trigger" -> {"TriggerableDevice"}
      [] c = "ClockLine" -> {"ClockableDevice"}
      [] c = "Pseudoclock" -> {"ClockLine"}
      [] c = "PseudoclockDevice" -> {"Pseudoclock"}
      [] OTHER -> {"Device"}

allowed_instructions(c) ==
    CASE c = "Shot" -> {"Wait"}
      [] c = "StaticOutput" -> {"Static"}
      [] isinstance(c, "Output") /\ c # "StaticOutput" -> {"OutputInstruction"}
      [] OTHER -> {"Instruction"}

\* -------------------------------------------------------------- initial state
\* The Shot object Shot.__init__ leaves behind.  HasParent.__init__ sets the
\* phase to None and registers the Shot, HasDevices.__init__ and
\* HasInstructions.__init__ create the empty lists, and the last statement of
\* Shot.__init__ (shot.py:30) reads ADD_DEVICES from the phase enumeration of
\* utils.py, which has no such member: the constructor raises AttributeError
\* and the phase stays None until set_phase is called.
InitState ==
    [phase |-> NoneVal,
     devices |-> [n \in NodeIds |-> << >>],
     instructions |-> [n \in NodeIds |-> << >>],
     cls |-> [n \in NodeIds |-> IF n = SHOT THEN "Shot" ELSE "none"],
     parent |-> [n \in NodeIds |-> IF n = SHOT THEN SHOT ELSE Unset],
     shot |-> [n \in NodeIds |-> IF n = SHOT THEN SHOT ELSE Unset],
     pseudoclock |-> [n \in NodeIds |-> IF n = SHOT THEN NoneVal ELSE Unset],
     registry |-> {SHOT},
     other |-> [phase |-> Unset, registry |-> {},
                master_pseudoclock |-> Unset, all_devices |-> NoneSeq,
                all_pseudoclocks |-> NoneSeq, total_instructions |-> Unset],
     called |-> [n \in NodeIds |-> {}],
     ran |-> [n \in NodeIds |-> [m \in ExactlyOnceMethods |-> 0]],
     master_pseudoclock |-> NoneVal,
     all_devices |-> NoneSeq,
     all_pseudoclocks |-> NoneSeq,
     total_instructions |-> 0,
     instruction_number |-> [n \in NodeIds |-> Unset],
     t |-> [n \in NodeIds |-> Unset],
     quantised_t |-> [n \in NodeIds |-> Unset],
     clock_minimum_period |-> [n \in NodeIds |-> Unset],
     timebase |-> [n \in NodeIds |-> Unset],
     clock_minimum_trigger |-> [n \in NodeIds |-> Unset],
     common_clock_minimum_period |-> [n \in NodeIds |-> Unset],
     common_clock_minimum_trigger |-> [n \in NodeIds |-> Unset],
     clock_period_limiting_device |-> [n \in NodeIds |-> Unset],
     clock_trigger_limiting_device |-> [n \in NodeIds |-> Unset],
     failed_starts |-> 0,
     ENFORCE_PHASE |-> TRUE,
     ep |-> [ENFORCE_PHASE |-> TRUE,
             phase |-> ADD_DEVICES,
             instances_by_shot |-> {},
             called_methods |-> [i \in Instances |-> {}],
             ran |-> [i \in Instances |-> [f \in Functions |-> 0]]],
     log |-> << >>,
     result |-> NoneSeq,
     err |-> "AttributeError"]

Init ==
    /\ phase = InitState.phase
    /\ devices = InitState.devices
    /\ instructions = InitState.instructions
    /\ cls = InitState.cls
    /\ parent = InitState.parent
    /\ shot = InitState.shot
    /\ pseudoclock = InitState.pseudoclock
    /\ registry = InitState.registry
    /\ other = InitState.other
    /\ called = InitState.called
    /\ ran = InitState.ran
    /\ master_pseudoclock = InitState.master_pseudoclock
    /\ all_devices = InitState.all_devices
    /\ all_pseudoclocks = InitState.all_pseudoclocks
    /\ total_instructions = InitState.total_instructions
    /\ instruction_number = InitState.instruction_number
    /\ t = InitState.t
    /\ quantised_t = InitState.quantised_t
    /\ clock_minimum_period = InitState.clock_minimum_period
    /\ timebase = InitState.timebase
    /\ clock_minimum_trigger = InitState.clock_minimum_trigger
    /\ common_clock_minimum_period = InitState.common_clock_minimum_period
    /\ common_clock_minimum_trigger = InitState.common_clock_minimum_trigger
    /\ clock_period_limiting_device = InitState.clock_period_limiting_device
    /\ clock_trigger_limiting_device = InitState.clock_trigger_limiting_device
    /\ failed_starts = InitState.failed_starts
    /\ ENFORCE_PHASE = InitState.ENFORCE_PHASE
    /\ ep = InitState.ep
    /\ log = InitState.log
    /\ result = InitState.result
    /\ err = InitState.err
    /\ op = "Shot"

\* The state after two Shot objects have been constructed.
InitStateTwoShots ==
    [InitState EXCEPT
        !.cls[OTHER_SHOT] = "Shot",
        !.parent[OTHER_SHOT] = OTHER_SHOT,
        !.shot[OTHER_SHOT] = OTHER_SHOT,
        !.pseudoclock[OTHER_SHOT] = NoneVal,
        !.other = [phase |-> NoneVal, registry |-> {OTHER_SHOT},
                   master_pseudoclock |-> NoneVal, all_devices |-> NoneSeq,
                   all_pseudoclocks |-> NoneSeq, total_instructions |-> 0]]

InitTwoShots ==
    /\ phase = InitStateTwoShots.phase
    /\ devices = InitStateTwoShots.devices
    /\ instructions = InitStateTwoShots.instructions
    /\ cls = InitStateTwoShots.cls
    /\ parent = InitStateTwoShots.parent
    /\ shot = InitStateTwoShots.shot
    /\ pseudoclock = InitStateTwoShots.pseudoclock
    /\ registry = InitStateTwoShots.registry
    /\ other = InitStateTwoShots.other
    /\ called = InitStateTwoShots.called
    /\ ran = InitStateTwoShots.ran
    /\ master_pseudoclock = InitStateTwoShots.master_pseudoclock
    /\ all_devices = InitStateTwoShots.all_devices
    /\ all_pseudoclocks = InitStateTwoShots.all_pseudoclocks
    /\ total_instructions = InitStateTwoShots.total_instructions
    /\ instruction_number = InitStateTwoShots.instruction_number
    /\ t = InitStateTwoShots.t
    /\ quantised_t = InitStateTwoShots.quantised_t
    /\ clock_minimum_period = InitStateTwoShots.clock_minimum_period
    /\ timebase = InitStateTwoShots.timebase
    /\ clock_minimum_trigger = InitStateTwoShots.clock_minimum_trigger
    /\ common_clock_minimum_period =
            InitStateTwoShots.common_clock_minimum_period
    /\ common_clock_minimum_trigger =
            InitStateTwoShots.common_clock_minimum_trigger
    /\ clock_period_limiting_device =
            InitStateTwoShots.clock_period_limiting_device
    /\ clock_trigger_limiting_device =
            InitStateTwoShots.clock_trigger_limiting_device
    /\ failed_starts = InitStateTwoShots.failed_starts
    /\ ENFORCE_PHASE = InitStateTwoShots.ENFORCE_PHASE
    /\ ep = InitStateTwoShots.ep
    /\ log = InitStateTwoShots.log
    /\ result = InitStateTwoShots.result
    /\ err = InitStateTwoShots.err
    /\ op = "Shot"

\* Reading and assigning the attribute attr of the Shot object sh (for
\* "registry": the entry of HasParent.__instances_by_shot under the key sh).
Shot_getattr(s, sh, attr) == IF sh = SHOT THEN s[attr] ELSE s.other[attr]
Shot_setattr(s, sh, attr, v) ==
    IF sh = SHOT THEN [s EXCEPT ![attr] = v] ELSE [s EXCEPT !.other[attr] = v]

\* ------------------------------------------------------------ phase controller
\* In the three operators below n is the object whose shot attribute gives
\* the Shot (bases.py:111): self, or for an __init__ method, whose self has
\* no shot attribute yet, the parent argument (bases.py:116-119).
\* The exception raised where the phase differs (bases.py:124-127): the
\* message is built from shot.phase.name first, and while the phase is None
\* that attribute access raises AttributeError.
wrong_phase(s, n) ==
    IF Shot_getattr(s, s.shot[n], "phase") = NoneVal
    THEN "AttributeError" ELSE "WrongPhaseError"

\* Whether __str__ of an object of class c raises: Static.__str__
\* (instructions.py:59-60) has formatobj read self.value (utils.py:77), an
\* attribute Static.__init__ never assigns; every other class formats
\* attributes its constructor has assigned.
str_raises(c) == c = "Static"

\* The exception raised where an exactly-once method was already called on
\* the object n (bases.py:130-133): the message is built from f"{self}"
\* first, and where __str__ raises, its AttributeError is what the call
\* raises.
already_called(s, n) ==
    IF str_raises(s.cls[n]) THEN "AttributeError" ELSE "AlreadyCalledError"

\* check_phase discarding the record of the call when it raises
\* AlreadyCalledError.
check_phase_forgetting(s, n, required, method, exactly_once) ==
    IF Shot_getattr(s, s.shot[n], "phase") # required
    THEN Raise(s, wrong_phase(s, n))
    ELSE IF exactly_once /\ method \in s.called[n]
        THEN Raise([s EXCEPT !.called[n] = @ \ {method}],
                   already_called(s, n))
    ELSE IF exactly_once
        THEN [s EXCEPT !.called[n] = @ \cup {method},
                       !.ran[n][method] = @ + 1]
    ELSE s

\* check_phase recording an exactly-once call before it tests the phase.
check_phase_recording_first(s, n, required, method, exactly_once) ==
    LET s1 == IF exactly_once /\ method \notin s.called[n]
              THEN [s EXCEPT !.called[n] = @ \cup {method}]
              ELSE s
    IN  IF Shot_getattr(s, s.shot[n], "phase") # required
        THEN Raise(s1, wrong_phase(s, n))
        ELSE IF exactly_once /\ method \in s.called[n]
            THEN Raise(s, already_called(s, n))
        ELSE IF exactly_once
            THEN [s1 EXCEPT !.ran[n][method] = @ + 1]
        ELSE s

\* The decorator with its test of ENFORCE_PHASE left out: the wrapper is
\* there whatever the flag says.
check_phase_always_enforced(s, n, required, method, exactly_once) ==
    IF Shot_getattr(s, s.shot[n], "phase") # required
    THEN Raise(s, wrong_phase(s, n))
    ELSE IF exactly_once /\ method \in s.called[n]
        THEN Raise(s, already_called(s, n))
    ELSE IF exactly_once
        THEN [s EXCEPT !.called[n] = @ \cup {method},
                       !.ran[n][method] = @ + 1]
    ELSE s

\* HasParent.enforce_phase.check_phase: the wrapper around a decorated method,
\* up to the call of the method itself.  With ENFORCE_PHASE false the
\* decorator returned the method itself and there is no wrapper.
check_phase(s, n, required, method, exactly_once) ==
    IF ~ s.ENFORCE_PHASE
    THEN IF exactly_once THEN [s EXCEPT !.ran[n][method] = @ + 1] ELSE s
    ELSE IF Shot_getattr(s, s.shot[n], "phase") # required
    THEN Raise(s, wrong_phase(s, n))
    ELSE IF exactly_once /\ method \in s.called[n]
        THEN Raise(s, already_called(s, n))
    ELSE IF exactly_once
        THEN [s EXCEPT !.called[n] = @ \cup {method},
                       !.ran[n][method] = @ + 1]
    ELSE s

\* HasParent.__methods_required_once_by_phase: the decorator is the classmethod
\* bound to HasParent, so every method is filed under the class HasParent.
\* With ENFORCE_PHASE false the decorator returns before it files anything.
methods_required_once_by_phase(s, ph) ==
    CASE ~ s.ENFORCE_PHASE -> {}
      [] ph = ESTABLISH_COMMON_LIMITS ->
            {<<"HasParent", "establish_common_limits">>}
      [] ph = ESTABLISH_INITIAL_ATTRIBUTES ->
            {<<"HasParent", "establish_initial_attributes">>}
      [] ph = CONVERT_TIMING -> {<<"HasParent", "convert_timing">>}
      [] OTHER -> {}

\* HasParent._check_required_methods_called: TRUE when it raises NotCalledError.
check_required_methods_called(s, n, ph) ==
    \E r \in methods_required_once_by_phase(s, ph) :
        isinstance(s.cls[n], r[1]) /\ r[2] \notin s.called[n]

\* set_phase assigning the phase before the required methods are checked.
set_phase_assigning_first(s, sh, q) ==
    IF /\ Shot_getattr(s, sh, "phase") # NoneVal
       /\ \E instance \in Shot_getattr(s, sh, "registry") :
                check_required_methods_called(s, instance,
                                              Shot_getattr(s, sh, "phase"))
    THEN Raise(Shot_setattr(s, sh, "phase", q), "NotCalledError")
    ELSE Shot_setattr(s, sh, "phase", q)

\* HasParent.set_phase, called on the Shot sh.  While the phase is None the
\* required methods are not checked (bases.py:81).
set_phase(s, sh, q) ==
    IF /\ Shot_getattr(s, sh, "phase") # NoneVal
       /\ \E instance \in Shot_getattr(s, sh, "registry") :
                check_required_methods_called(s, instance,
                                              Shot_getattr(s, sh, "phase"))
    THEN Raise(s, "NotCalledError")
    ELSE Shot_setattr(s, sh, "phase", q)
\* ------------------------------------------- the controller of enforce_phase.py
\* The wrapped function called on instance i: what it does is counted.
function_body(s, i, f) == [s EXCEPT !.ep.ran[i][f] = @ + 1]

\* PhaseEnforcedFunction.__call__ testing the phase and the exactly-once
\* record before it calls the function.
PhaseEnforcedFunction_call_checking_first(s, i, f) ==
    IF s.ep.phase # f.phase
    THEN Raise(s, "WrongPhaseError")
    ELSE IF f.exactly_once /\ f \in s.ep.called_methods[i]
        THEN Raise(s, "AlreadyCalledError")
    ELSE IF f.exactly_once
        THEN function_body([s EXCEPT !.ep.called_methods[i] = @ \cup {f}],
                           i, f)
    ELSE function_body(s, i, f)

\* PhaseEnforcedFunction.__call__
PhaseEnforcedFunction_call(s, i, f) ==
    LET s1 == function_body(s, i, f) IN
    IF s1.ep.phase # f.phase
    THEN Raise(s1, "WrongPhaseError")
    ELSE IF f.exactly_once /\ f \in s1.ep.called_methods[i]
        THEN Raise(s1, "AlreadyCalledError")
    ELSE IF f.exactly_once
        THEN [s1 EXCEPT !.ep.called_methods[i] = @ \cup {f}]
    ELSE s1

\* A call of a method decorated with enforce_phase: enforce_phase.__call__
\* returned the function itself or a PhaseEnforcedFunction around it.
decorated_call(s, i, f) ==
    IF ~ s.ep.ENFORCE_PHASE THEN function_body(s, i, f)
    ELSE PhaseEnforcedFunction_call(s, i, f)

\* enforce_phase.register_instance
register_instance(s, i) ==
    [s EXCEPT !.ep.instances_by_shot = @ \cup {i}]

\* enforce_phase.required_methods[ph] for the class of the instances, as
\* has_phase_enforced_methods.__init__ fills it: the attributes of the
\* class that are PhaseEnforcedFunctions with exactly_once set.
required_methods(s, ph) ==
    IF s.ep.ENFORCE_PHASE
    THEN {f \in Functions : f.exactly_once /\ f.phase = ph}
    ELSE {}

\* enforce_phase.check_required_methods_called, for the instances' shot.
\* The message of its NotCalledError reads method.__name__, which a
\* PhaseEnforcedFunction does not have: the raise statement is not reached.
enforce_phase_check_required_methods_called(s, ph) ==
    IF ~ s.ep.ENFORCE_PHASE THEN s
    ELSE IF s.ep.instances_by_shot = {} THEN Raise(s, "KeyError")
    ELSE IF \E i \in s.ep.instances_by_shot :
                required_methods(s, ph) \ s.ep.called_methods[i] # {}
        THEN Raise(s, "AttributeError")
    ELSE s

\* ------------------------------------------------------------------ the tree
\* The id the next created device / instruction object gets.
NextDevice(s) == 1 + Cardinality({d \in DeviceIds : s.cls[d] # "none"})
NextInstruction(s) ==
    MaxClockDevices + 1
        + Cardinality({i \in InstructionIds : s.cls[i] # "none"})

\* HasParent.__init__ appending the new object to the list of every Shot.
HasParent_init_registering_everywhere(s, n, p) ==
    [s EXCEPT !.parent[n] = p,
              !.shot[n] = s.shot[p],
              !.called[n] = {},
              !.registry = @ \cup {n},
              !.other.registry = @ \cup {n}]

\* HasParent.__init__
HasParent_init(s, n, p) ==
    LET s1 == [s EXCEPT !.parent[n] = p,
                        !.shot[n] = s.shot[p],
                        !.called[n] = {}]
    IN  Shot_setattr(s1, s1.shot[n], "registry",
                     Shot_getattr(s1, s1.shot[n], "registry") \cup {n})

\* add_device with the test against allowed_devices left out.
HasDevices_add_device_untested(s, p, d) ==
    LET g == check_phase(s, p, ADD_DEVICES, "add_device", FALSE) IN
    IF g.err # "ok" THEN g
    ELSE [s EXCEPT !.devices[p] = Append(@, d)]

\* add_device assigning a one-element list instead of appending.
HasDevices_add_device_replacing(s, p, d) ==
    LET g == check_phase(s, p, ADD_DEVICES, "add_device", FALSE) IN
    IF g.err # "ok" THEN g
    ELSE IF ~ \E k \in allowed_devices(s.cls[p]) : isinstance(s.cls[d], k)
        THEN Raise(s, "TypeError")
    ELSE [s EXCEPT !.devices[p] = <<d>>]

\* HasDevices.add_device, with its enforce_phase(ADD_DEVICES) wrapper.
HasDevices_add_device(s, p, d) ==
    LET g == check_phase(s, p, ADD_DEVICES, "add_device", FALSE) IN
    IF g.err # "ok" THEN g
    ELSE IF ~ \E k \in allowed_devices(s.cls[p]) : isinstance(s.cls[d], k)
        THEN Raise(s, "TypeError")
    ELSE [s EXCEPT !.devices[p] = Append(@, d)]

\* Shot.add_device without the test for an existing master.
Shot_add_device_any_master(s, sh, d) ==
    IF isinstance(s.cls[d], "PseudoclockDevice")
    THEN HasDevices_add_device(
             Shot_setattr(s, sh, "master_pseudoclock", d), sh, d)
    ELSE HasDevices_add_device(s, sh, d)

\* Shot.add_device, called on the Shot sh.
Shot_add_device(s, sh, d) ==
    IF isinstance(s.cls[d], "PseudoclockDevice")
    THEN IF Shot_getattr(s, sh, "master_pseudoclock") # NoneVal
         THEN Raise(s, "ValueError")
         ELSE HasDevices_add_device(
                  Shot_setattr(s, sh, "master_pseudoclock", d), sh, d)
    ELSE HasDevices_add_device(s, sh, d)

\* add_device as dispatched on the parent p.
add_device(s, p, d) ==
    IF s.cls[p] = "Shot" THEN Shot_add_device(s, p, d)
    ELSE HasDevices_add_device(s, p, d)

\* Device.__init__, with its enforce_phase(ADD_DEVICES) wrapper; n is the new
\* object, of class c.
Device_init(s, n, c, p) ==
    LET g == check_phase(s, p, ADD_DEVICES, "__init__", FALSE) IN
    IF g.err # "ok" THEN g
    ELSE LET s1 == HasParent_init([s EXCEPT !.cls[n] = c], n, p)
             s2 == add_device(s1, p, n)
         IN  IF s2.err # "ok" THEN s2
             ELSE [s2 EXCEPT !.pseudoclock[n] = s2.pseudoclock[p]]

\* Whether object n has the attribute whose values the function attr holds.
hasattr(attr, n) == attr[n] # Unset

\* The attributes ClockLine.__init__ reads from its parent: a Pseudoclock
\* has both, a ClockableDevice the first only.
has_clock_attributes(s, p) ==
    hasattr(s.clock_minimum_period, p) /\ hasattr(s.timebase, p)

\* Pseudoclock.__init__ after Device.__init__ returned.
Pseudoclock_init(s, n, a) ==
    [s EXCEPT !.clock_minimum_period[n] = a.clock_minimum_period,
              !.timebase[n] = a.timebase,
              !.pseudoclock[n] = n]

\* ClockableDevice.__init__ after Device.__init__ returned.
ClockableDevice_init(s, n, a) ==
    [s EXCEPT !.clock_minimum_trigger[n] = a.clock_minimum_trigger,
              !.clock_minimum_period[n] = a.clock_minimum_period]

\* ClockLine.__init__ after Device.__init__ returned: the two reads of the
\* parent's attributes, then the four attributes initialised to None.
ClockLine_init(s, n, p) ==
    IF ~ hasattr(s.clock_minimum_period, p) THEN Raise(s, "AttributeError")
    ELSE LET s1 == [s EXCEPT !.clock_minimum_period[n] =
                                    s.clock_minimum_period[p]]
         IN  IF ~ hasattr(s1.timebase, p) THEN Raise(s1, "AttributeError")
             ELSE [s1 EXCEPT !.timebase[n] = s1.timebase[p],
                             !.common_clock_minimum_period[n] = NoneVal,
                             !.common_clock_minimum_trigger[n] = NoneVal,
                             !.clock_period_limiting_device[n] = NoneVal,
                             !.clock_trigger_limiting_device[n] = NoneVal]

\* The constructors with Pseudoclock.__init__ not assigning self.pseudoclock.
new_device_inheriting_pseudoclock(s, c, p, a) ==
    LET n == NextDevice(s)
        s1 == Device_init(s, n, c, p)
    IN  IF s1.err # "ok" THEN s1
        ELSE IF c = "Pseudoclock"
            THEN [s1 EXCEPT !.clock_minimum_period[n] = a.clock_minimum_period,
                            !.timebase[n] = a.timebase]
        ELSE IF c = "ClockableDevice" THEN ClockableDevice_init(s1, n, a)
        ELSE IF c = "ClockLine" THEN ClockLine_init(s1, n, p)
        ELSE s1

\* The constructor of device class c called with parent p and numerical
\* arguments a.
new_device(s, c, p, a) ==
    LET n == NextDevice(s)
        s1 == Device_init(s, n, c, p)
    IN  IF s1.err # "ok" THEN s1
        ELSE IF c = "Pseudoclock" THEN Pseudoclock_init(s1, n, a)
        ELSE IF c = "ClockableDevice" THEN ClockableDevice_init(s1, n, a)
        ELSE IF c = "ClockLine" THEN ClockLine_init(s1, n, p)
        ELSE s1

\* Whether descendant_devices(recurse_into_pseudoclocks=True), called on
\* the node n while its calls on the nodes of stack have not returned, never
\* returns.  The loop of bases.py:263-268 takes the children in list order
\* and comes to the next one when the call on the one before has returned;
\* a call on a node of the stack repeats what the call above it did
\* (add_device appends any existing device, an ancestor included).
RECURSIVE never_returns(_, _, _)
never_returns(s, n, stack) ==
    \/ n \in stack
    \/ \E k \in 1..Len(s.devices[n]) :
            /\ ~ isinstance(s.cls[s.devices[n][k]], "Pseudoclock")
            /\ never_returns(s, s.devices[n][k], stack \cup {n})

\* Whether the traversal started on n never ends, so that Python raises
\* RecursionError at its depth limit.
recursion_unbounded(s, n) == never_returns(s, n, {})

\* HasDevices.descendant_devices, where it returns.
RECURSIVE descendant_devices(_, _, _)
descendant_devices(s, n, recurse_into_pseudoclocks) ==
    LET RECURSIVE loop(_, _)
        loop(k, acc) ==
            IF k > Len(s.devices[n]) THEN acc
            ELSE LET device == s.devices[n][k] IN
                 IF isinstance(s.cls[device], "Pseudoclock")
                        \/ ~ recurse_into_pseudoclocks
                 THEN loop(k + 1, acc)
                 ELSE loop(k + 1,
                           (acc \o <<device>>) \o
                           descendant_devices(s, device,
                                              recurse_into_pseudoclocks))
    IN  loop(1, << >>)

\* descendant_instructions as dispatched on node n: HasDevices'
\* implementation, whose super() call reaches HasInstructions' (the node's own
\* instructions) on a Shot or an Output and HasChildren's (the empty list) on
\* any other device.
RECURSIVE descendant_instructions(_, _, _)
descendant_instructions(s, n, recurse_into_pseudoclocks) ==
    LET own == IF isinstance(s.cls[n], "HasInstructions")
               THEN s.instructions[n] ELSE << >>
        RECURSIVE loop(_, _)
        loop(k, acc) ==
            IF k > Len(s.devices[n]) THEN acc
            ELSE LET device == s.devices[n][k] IN
                 IF isinstance(s.cls[device], "Pseudoclock")
                        \/ ~ recurse_into_pseudoclocks
                 THEN loop(k + 1, acc)
                 ELSE loop(k + 1,
                           acc \o descendant_instructions(
                                      s, device, recurse_into_pseudoclocks))
    IN  loop(1, own)
\* ---------------------------------------------------------------- the passes
\* HasDevices.common_limits_established and .initial_attributes_established:
\* set to False by HasDevices.__init__ and assigned nowhere else.
common_limits_established(s, d) == FALSE
initial_attributes_established(s, d) == FALSE

\* The loop of Shot.establish_common_limits / establish_initial_attributes
\* over Shot.all_devices.
confirm_all_devices(s, sh, flag) ==
    LET established(d) ==
            IF flag = "common_limits_established"
            THEN common_limits_established(s, d)
            ELSE initial_attributes_established(s, d)
        all == Shot_getattr(s, sh, "all_devices")
    IN  IF all = NoneSeq THEN Raise(s, "TypeError")
        ELSE IF \E k \in 1..Len(all) : ~ established(all[k])
            THEN Raise(s, "RuntimeError")
        ELSE s

\* The event of a pass on node n appended to the log: "invoked" when
\* check_phase has recorded the call and the method body begins, "returned"
\* when the method returns normally, "computed" when a ClockLine begins the
\* statements that compute its own limits.
logged(s, event, method, n) ==
    [s EXCEPT !.log = Append(@, <<event, method, n>>)]

\* The body of ClockLine.establish_common_limits after the call of super():
\* the limits start at the line's own, the ClockableDevices among
\* descendant_devices(False) raise them, and the period is passed through
\* int(...) + 1 and multiplied by the timebase.
ClockLine_establish_common_limits(s, n) ==
    IF ~ hasattr(s.clock_minimum_period, n)
    THEN Raise(logged(s, "computed", "establish_common_limits", n),
               "AttributeError")
    ELSE
    LET s1 == [logged(s, "computed", "establish_common_limits", n) EXCEPT
                !.common_clock_minimum_period[n] = s.clock_minimum_period[n],
                !.clock_period_limiting_device[n] = n,
                !.common_clock_minimum_trigger[n] = 0,
                !.clock_trigger_limiting_device[n] = NoneVal]
        ds == descendant_devices(s1, n, FALSE)
        RECURSIVE loop(_, _)
        loop(k, st) ==
            IF k > Len(ds) THEN st
            ELSE LET device == ds[k] IN
                 IF ~ isinstance(st.cls[device], "ClockableDevice")
                 THEN loop(k + 1, st)
                 ELSE LET st1 ==
                            IF st.clock_minimum_period[device]
                                    > st.common_clock_minimum_period[n]
                            THEN [st EXCEPT
                                    !.common_clock_minimum_period[n] =
                                        st.clock_minimum_period[device],
                                    !.clock_period_limiting_device[n] = device]
                            ELSE st
                          st2 ==
                            IF st1.clock_minimum_trigger[device]
                                    > st1.common_clock_minimum_trigger[n]
                            THEN [st1 EXCEPT
                                    !.common_clock_minimum_trigger[n] =
                                        st1.clock_minimum_trigger[device],
                                    !.clock_trigger_limiting_device[n] = device]
                            ELSE st1
                      IN  loop(k + 1, st2)
        s2 == loop(1, s1)
        quantised == int(s2.common_clock_minimum_period[n]) + 1
    IN  IF ~ hasattr(s2.timebase, n) THEN Raise(s2, "AttributeError")
        ELSE [s2 EXCEPT !.common_clock_minimum_period[n] =
                            quantised * s2.timebase[n]]

\* establish_common_limits as dispatched on node n: the decorated
\* HasDevices.establish_common_limits, extended by ClockLine and by Shot.
RECURSIVE establish_common_limits(_, _)
\* establish_common_limits with a ClockLine computing its own limits before
\* the loop over its children instead of after it.
establish_common_limits_computing_first(s, n) ==
    LET RECURSIVE loop(_, _)
        loop(k, st) ==
            IF k > Len(st.devices[n]) \/ st.err # "ok" THEN st
            ELSE loop(k + 1, establish_common_limits(st, st.devices[n][k]))
        g == check_phase(s, n, ESTABLISH_COMMON_LIMITS,
                         "establish_common_limits", TRUE)
        s0 == IF g.err # "ok" THEN g
              ELSE IF g.cls[n] = "ClockLine"
                  THEN ClockLine_establish_common_limits(
                           logged(g, "invoked", "establish_common_limits", n),
                           n)
              ELSE logged(g, "invoked", "establish_common_limits", n)
        s1 == IF s0.err # "ok" THEN s0 ELSE loop(1, s0)
        s2 == IF s1.err # "ok" THEN s1
              ELSE IF s1.cls[n] = "Shot"
                  THEN confirm_all_devices(s1, n, "common_limits_established")
              ELSE s1
    IN  IF s2.err # "ok" THEN s2
        ELSE logged(s2, "returned", "establish_common_limits", n)

establish_common_limits(s, n) ==
    LET RECURSIVE loop(_, _)
        loop(k, st) ==
            IF k > Len(st.devices[n]) \/ st.err # "ok" THEN st
            ELSE loop(k + 1, establish_common_limits(st, st.devices[n][k]))
        g == check_phase(s, n, ESTABLISH_COMMON_LIMITS,
                         "establish_common_limits", TRUE)
        s1 == IF g.err # "ok" THEN g
              ELSE loop(1, logged(g, "invoked", "establish_common_limits", n))
        s2 == IF s1.err # "ok" THEN s1
              ELSE IF s1.cls[n] = "Shot"
                  THEN confirm_all_devices(s1, n, "common_limits_established")
              ELSE IF s1.cls[n] = "ClockLine"
                  THEN ClockLine_establish_common_limits(s1, n)
              ELSE s1
    IN  IF s2.err # "ok" THEN s2
        ELSE logged(s2, "returned", "establish_common_limits", n)

\* establish_initial_attributes as dispatched on node n.
RECURSIVE establish_initial_attributes(_, _)
\* establish_initial_attributes visiting the children before the call on the
\* node itself is recorded.
establish_initial_attributes_children_first(s, n) ==
    LET RECURSIVE loop(_, _)
        loop(k, st) ==
            IF k > Len(st.devices[n]) \/ st.err # "ok" THEN st
            ELSE loop(k + 1,
                      establish_initial_attributes(st, st.devices[n][k]))
        s1 == loop(1, s)
        g == IF s1.err # "ok" THEN s1
             ELSE check_phase(s1, n, ESTABLISH_INITIAL_ATTRIBUTES,
                              "establish_initial_attributes", TRUE)
        s2 == IF g.err # "ok" THEN g
              ELSE logged(g, "invoked", "establish_initial_attributes", n)
    IN  IF s2.err # "ok" THEN s2
        ELSE logged(s2, "returned", "establish_initial_attributes", n)

\* establish_initial_attributes with a ClockLine putting its four common
\* limits back to None.
establish_initial_attributes_resetting_limits(s, n) ==
    LET RECURSIVE loop(_, _)
        loop(k, st) ==
            IF k > Len(st.devices[n]) \/ st.err # "ok" THEN st
            ELSE loop(k + 1,
                      establish_initial_attributes(st, st.devices[n][k]))
        g == check_phase(s, n, ESTABLISH_INITIAL_ATTRIBUTES,
                         "establish_initial_attributes", TRUE)
        s1 == IF g.err # "ok" THEN g
              ELSE loop(1, logged(g, "invoked",
                                  "establish_initial_attributes", n))
    IN  IF s1.err # "ok" THEN s1
        ELSE IF s1.cls[n] = "ClockLine"
            THEN [s1 EXCEPT !.common_clock_minimum_period[n] = NoneVal,
                            !.common_clock_minimum_trigger[n] = NoneVal,
                            !.clock_period_limiting_device[n] = NoneVal,
                            !.clock_trigger_limiting_device[n] = NoneVal]
        ELSE s1

establish_initial_attributes(s, n) ==
    LET RECURSIVE loop(_, _)
        loop(k, st) ==
            IF k > Len(st.devices[n]) \/ st.err # "ok" THEN st
            ELSE loop(k + 1,
                      establish_initial_attributes(st, st.devices[n][k]))
        g == check_phase(s, n, ESTABLISH_INITIAL_ATTRIBUTES,
                         "establish_initial_attributes", TRUE)
        s1 == IF g.err # "ok" THEN g
              ELSE loop(1, logged(g, "invoked",
                                  "establish_initial_attributes", n))
        s2 == IF s1.err # "ok" THEN s1
              ELSE IF s1.cls[n] = "Shot"
                  THEN confirm_all_devices(s1, n,
                                           "initial_attributes_established")
              ELSE s1
    IN  IF s2.err # "ok" THEN s2
        ELSE logged(s2, "returned", "establish_initial_attributes", n)

\* The list comprehension of Shot.start (shot.py:68).
pseudoclocks_of(s, ds) ==
    SelectSeq(ds, LAMBDA d : isinstance(s.cls[d], "Pseudoclock"))

\* The count of failed calls of Shot.start on the Shot SHOT, kept up to
\* MaxFailedStarts.
count_start(r, sh) ==
    IF sh = SHOT /\ r.err # "ok" /\ r.failed_starts < MaxFailedStarts
    THEN [r EXCEPT !.failed_starts = @ + 1] ELSE r

\* The statements of Shot.start up to its first pass: the device lists are
\* populated and the phase is assigned.
start_entry(s, sh) ==
    IF recursion_unbounded(s, sh) THEN Raise(s, "RecursionError")
    ELSE
    LET ds == descendant_devices(s, sh, TRUE)
        s1 == Shot_setattr(s, sh, "all_devices", ds)
        s2 == Shot_setattr(s1, sh, "all_pseudoclocks", pseudoclocks_of(s, ds))
    IN  Shot_setattr(s2, sh, "phase", ESTABLISH_COMMON_LIMITS)

\* Shot.start assigning ADD_INSTRUCTIONS before the second pass has returned.
start_advancing_early(s, sh) ==
    LET s1 == start_entry(s, sh)
        s2 == establish_common_limits(s1, sh)
        s3 == establish_initial_attributes(
                  Shot_setattr(s2, sh, "phase", ESTABLISH_INITIAL_ATTRIBUTES),
                  sh)
    IN  count_start(IF s1.err # "ok" THEN s1
                    ELSE IF s2.err # "ok" THEN s2
                    ELSE Shot_setattr(s3, sh, "phase", ADD_INSTRUCTIONS), sh)

\* Shot.start, called on the Shot sh.
start(s, sh) ==
    LET s1 == start_entry(s, sh)
        s2 == establish_common_limits(s1, sh)
        s3 == establish_initial_attributes(
                  Shot_setattr(s2, sh, "phase", ESTABLISH_INITIAL_ATTRIBUTES),
                  sh)
    IN  count_start(IF s1.err # "ok" THEN s1
                    ELSE IF s2.err # "ok" THEN s2
                    ELSE IF s3.err # "ok" THEN s3
                    ELSE Shot_setattr(s3, sh, "phase", ADD_INSTRUCTIONS), sh)

\* Shot.stop: its first statement reads self.waits, an attribute no class
\* defines.
stop(s) == Raise(s, "AttributeError")

\* ----------------------------------------------------------- the instructions
has_add_instruction(c) == isinstance(c, "HasInstructions")

\* HasInstructions.add_instruction, with its enforce_phase(ADD_INSTRUCTIONS)
\* wrapper.  The rejecting branch builds its message from the name device,
\* which is not defined there: the raise statement is not reached.
HasInstructions_add_instruction(s, p, i) ==
    LET g == check_phase(s, p, ADD_INSTRUCTIONS, "add_instruction", FALSE) IN
    IF g.err # "ok" THEN g
    ELSE IF ~ \E k \in allowed_instructions(s.cls[p]) : isinstance(s.cls[i], k)
        THEN Raise(s, "NameError")
    ELSE [s EXCEPT !.instructions[p] = Append(@, i)]

\* Instruction.__init__ taking its number before it is added to its owner.
Instruction_init_counting_first(s, i, c, p, time) ==
    LET g == check_phase(s, p, ADD_INSTRUCTIONS, "__init__", FALSE) IN
    IF g.err # "ok" THEN g
    ELSE LET s0 == HasParent_init([s EXCEPT !.cls[i] = c], i, p)
             s1 == Shot_setattr(
                       [s0 EXCEPT !.t[i] = time], s0.shot[p],
                       "total_instructions",
                       Shot_getattr(s0, s0.shot[p], "total_instructions") + 1)
             s2 == IF has_add_instruction(s1.cls[p])
                   THEN HasInstructions_add_instruction(s1, p, i)
                   ELSE Raise(s1, "AttributeError")
         IN  IF s2.err # "ok" THEN s2
             ELSE [s2 EXCEPT !.pseudoclock[i] = s2.pseudoclock[p],
                             !.quantised_t[i] = NoneVal,
                             !.instruction_number[i] =
                                Shot_getattr(s, s.shot[p],
                                             "total_instructions")]

\* Instruction.__init__, with its enforce_phase(ADD_INSTRUCTIONS) wrapper.
Instruction_init(s, i, c, p, time) ==
    LET g == check_phase(s, p, ADD_INSTRUCTIONS, "__init__", FALSE) IN
    IF g.err # "ok" THEN g
    ELSE LET s0 == HasParent_init([s EXCEPT !.cls[i] = c], i, p)
             s1 == [s0 EXCEPT !.t[i] = time]
             s2 == IF has_add_instruction(s1.cls[p])
                   THEN HasInstructions_add_instruction(s1, p, i)
                   ELSE Raise(s1, "AttributeError")
         IN  IF s2.err # "ok" THEN s2
             ELSE LET n == Shot_getattr(s2, s2.shot[p], "total_instructions")
                  IN  Shot_setattr(
                          [s2 EXCEPT !.pseudoclock[i] = s2.pseudoclock[p],
                                     !.quantised_t[i] = NoneVal,
                                     !.instruction_number[i] = n],
                          s2.shot[p], "total_instructions", n + 1)

\* The constructor of instruction class c called with owner p and time
\* argument time; Static.__init__ takes no time and passes 0.
new_instruction(s, c, p, time) ==
    Instruction_init(s, NextInstruction(s), c, p,
                     IF c = "Static" THEN 0 ELSE time)

\* Shot.wait, called on the Shot sh.
wait(s, sh, time) == new_instruction(s, "Wait", sh, time)

\* Output.constant, a method of Output and its subclasses.
has_constant(c) == isinstance(c, "Output")
Output_constant(s, p, time) == new_instruction(s, "Constant", p, time)

\* Instruction.convert_timing (reached through super() from
\* Function.convert_timing too): the decorated method, whose body is pass.
convert_timing(s, i) ==
    check_phase(s, i, CONVERT_TIMING, "convert_timing", TRUE)
\* ----------------------------------------------------------------- the sorting
\* list.sort(key=...) on a list whose keys can be compared: a stable sort,
\* computed by insertion from the left; an element goes behind the elements
\* of equal key that stood before it.
RECURSIVE insert_by_key(_, _, _)
insert_by_key(q, x, key) ==
    IF q = << >> THEN <<x>>
    ELSE IF key[x] < key[q[Len(q)]]
        THEN Append(insert_by_key(SubSeq(q, 1, Len(q) - 1), x, key),
                    q[Len(q)])
    ELSE Append(q, x)

RECURSIVE list_sort(_, _)
list_sort(q, key) ==
    IF q = << >> THEN << >>
    ELSE insert_by_key(list_sort(SubSeq(q, 1, Len(q) - 1), key),
                       q[Len(q)], key)

\* Whether list.sort raises TypeError: there are two elements to compare and
\* a key is None, for which < is not defined.
unorderable(q, key) ==
    Len(q) >= 2 /\ \E k \in 1..Len(q) : key[q[k]] = NoneVal

\* utils.sort_by_time applied to the instruction list of node n.  When the
\* comparison raises, no element has been moved.
sort_by_time(s, n) ==
    IF unorderable(s.instructions[n], s.t) THEN Raise(s, "TypeError")
    ELSE [s EXCEPT !.instructions[n] = list_sort(@, s.t)]

\* utils.sorted_by_time: the copy is sorted and returned.
sorted_by_time(s, n) ==
    IF unorderable(s.instructions[n], s.t) THEN Raise(s, "TypeError")
    ELSE [s EXCEPT !.result = list_sort(s.instructions[n], s.t)]

\* utils.sort_by_quantised_time applied to the instruction list of node n.
sort_by_quantised_time(s, n) ==
    IF unorderable(s.instructions[n], s.quantised_t)
    THEN Raise(s, "TypeError")
    ELSE [s EXCEPT !.instructions[n] = list_sort(@, s.quantised_t)]

\* utils.sorted_by_quantised_time
sorted_by_quantised_time(s, n) ==
    IF unorderable(s.instructions[n], s.quantised_t)
    THEN Raise(s, "TypeError")
    ELSE [s EXCEPT !.result = list_sort(s.instructions[n], s.quantised_t)]
\* ------------------------------------------------------------------- actions
\* The objects user code holds a reference to: a device whose Device.__init__
\* returned (it is in its parent's list), an instruction whose
\* Instruction.__init__ returned.
KnownDevices == {d \in DeviceIds : pseudoclock[d] # Unset}
KnownInstructions == {i \in InstructionIds : instruction_number[i] # Unset}

NewDevice(c, p, max) ==
    /\ NextDevice(Cur) <= max
    /\ \E a \in DeviceArgs(c) : Apply(new_device(Cur, c, p, a), "Device")

ShotAddDevice(d) ==
    /\ Len(devices[SHOT]) < MaxShotChildren
    /\ Apply(Shot_add_device(Cur, SHOT, d), "add_device")

\* The number of entries the lists of all nodes hold together.
Entries(lists) ==
    Cardinality(UNION {{n} \X (1..Len(lists[n])) : n \in NodeIds})

\* add_device called on the device p with the existing device d.
AddDevice(p, d, max) ==
    /\ Entries(devices) < max + MaxReAdded
    /\ Apply(add_device(Cur, p, d), "add_device")

SetPhaseOf(sh, q) == Apply(set_phase(Cur, sh, q), "set_phase")

SetPhase(q) == SetPhaseOf(SHOT, q)

StartOf(sh) == Apply(start(Cur, sh), "start")

Start == StartOf(SHOT)

Stop == Apply(stop(Cur), "stop")

EstablishCommonLimits(n) ==
    Apply(establish_common_limits(Cur, n), "establish_common_limits")

EstablishInitialAttributes(n) ==
    Apply(establish_initial_attributes(Cur, n), "establish_initial_attributes")

NewInstruction(c, p, max) ==
    /\ NextInstruction(Cur) <= MaxClockDevices + max
    /\ \E time \in Times :
            Apply(new_instruction(Cur, c, p, time), "Instruction")

Wait(max) ==
    /\ NextInstruction(Cur) <= MaxClockDevices + max
    /\ \E time \in Times : Apply(wait(Cur, SHOT, time), "wait")

ConvertTiming(i) == Apply(convert_timing(Cur, i), "convert_timing")

OutputConstant(p, max) ==
    /\ has_constant(cls[p])
    /\ NextInstruction(Cur) <= MaxClockDevices + max
    /\ \E time \in Times : Apply(Output_constant(Cur, p, time), "constant")

\* The nodes that have an instruction list: the Shot and the Outputs.
Owners == {n \in {SHOT} \cup KnownDevices : has_add_instruction(cls[n])}

\* add_instruction called on the owner p with the existing instruction i.
AddInstruction(p, i, max) ==
    /\ Entries(instructions) < max + MaxReAdded
    /\ Apply(HasInstructions_add_instruction(Cur, p, i), "add_instruction")

SortByTime(n) == Apply(sort_by_time(Cur, n), "sort_by_time")

SortedByTime(n) == Apply(sorted_by_time(Cur, n), "sorted_by_time")

SortByQuantisedTime(n) ==
    Apply(sort_by_quantised_time(Cur, n), "sort_by_quantised_time")

SortedByQuantisedTime(n) ==
    Apply(sorted_by_quantised_time(Cur, n), "sorted_by_quantised_time")

\* Building the tree, in any phase.
NextTree ==
    \/ \E c \in DeviceClasses, p \in {SHOT} \cup KnownDevices :
            NewDevice(c, p, MaxDevices)
    \/ \E d \in KnownDevices : ShotAddDevice(d)
    \/ \E p \in KnownDevices, d \in KnownDevices :
            AddDevice(p, d, MaxDevices)
    \/ \E q \in phase_enum : SetPhase(q)

SpecTree == Init /\ [][NextTree]_vars

\* The whole compilation API, every operation in any phase and any order,
\* on one device object and one instruction object.
Next ==
    \/ \E c \in DeviceClasses, p \in {SHOT} \cup KnownDevices :
            NewDevice(c, p, MaxApiDevices)
    \/ \E d \in KnownDevices : ShotAddDevice(d)
    \/ \E p \in KnownDevices, d \in KnownDevices :
            AddDevice(p, d, MaxApiDevices)
    \/ \E q \in phase_enum : SetPhase(q)
    \/ Start
    \/ Stop
    \/ \E n \in {SHOT} \cup KnownDevices : EstablishCommonLimits(n)
    \/ \E n \in {SHOT} \cup KnownDevices : EstablishInitialAttributes(n)
    \/ \E c \in InstructionClasses, p \in {SHOT} \cup KnownDevices :
            NewInstruction(c, p, MaxInstructions)
    \/ Wait(MaxInstructions)
    \/ \E p \in Owners, i \in KnownInstructions :
            AddInstruction(p, i, MaxInstructions)
    \/ \E i \in KnownInstructions : ConvertTiming(i)

Spec == Init /\ [][Next]_vars

\* The device classes an instruction-issuing program builds its owners from:
\* a StaticDevice below the Shot and the Outputs below it.
OwnerClasses == {"StaticDevice", "Output", "StaticOutput"}

\* Issuing instructions on a small tree and converting them.
NextInstructions ==
    \/ \E c \in OwnerClasses, p \in {SHOT} \cup KnownDevices :
            NewDevice(c, p, MaxPipelineDevices)
    \/ \E q \in phase_enum : SetPhase(q)
    \/ \E c \in InstructionClasses, p \in {SHOT} \cup KnownDevices :
            NewInstruction(c, p, MaxNumberedInstructions)
    \/ Wait(MaxNumberedInstructions)
    \/ \E p \in Owners, i \in KnownInstructions :
            AddInstruction(p, i, MaxNumberedInstructions)
    \/ \E i \in KnownInstructions : ConvertTiming(i)
    \/ Stop

SpecInstructions == Init /\ [][NextInstructions]_vars

\* The device classes of a clock tree: a PseudoclockDevice below the Shot,
\* its Pseudoclock, a ClockLine and the ClockableDevices it clocks.
ClockClasses ==
    {"PseudoclockDevice", "Pseudoclock", "ClockLine", "ClockableDevice"}

\* The phases a program establishing limits by hand asks set_phase for, in
\* any phase and any order.
LimitPhases == {ADD_DEVICES, ESTABLISH_COMMON_LIMITS}

\* Building a clock tree and establishing its common limits by calling
\* establish_common_limits on the Shot or on a device (NextPasses runs
\* Shot.start on clock trees).
NextClock ==
    \/ \E c \in ClockClasses, p \in {SHOT} \cup KnownDevices :
            NewDevice(c, p, MaxClockDevices)
    \/ \E q \in LimitPhases : SetPhase(q)
    \/ \E n \in {SHOT} \cup KnownDevices : EstablishCommonLimits(n)

SpecClock == Init /\ [][NextClock]_vars

\* The phases a program issuing instructions without Shot.start asks
\* set_phase for, in any phase and any order.
IssuePhases == {ADD_DEVICES, ADD_INSTRUCTIONS}

\* Building a clock tree with Outputs below its ClockableDevices, and
\* issuing a Wait or setting an Output.
NextOutputs ==
    \/ \E c \in ClockClasses \cup {"Output"}, p \in {SHOT} \cup KnownDevices :
            NewDevice(c, p, MaxClockDevices)
    \/ \E q \in IssuePhases : SetPhase(q)
    \/ \E p \in KnownDevices : OutputConstant(p, MaxInstructions)
    \/ Wait(MaxInstructions)

SpecOutputs == Init /\ [][NextOutputs]_vars

\* The phases a program running the passes by hand asks set_phase for, in
\* any phase and any order.
PassPhases ==
    {ADD_DEVICES, ESTABLISH_COMMON_LIMITS, ESTABLISH_INITIAL_ATTRIBUTES}

\* Building a clock tree and running both passes on it, through Shot.start or
\* by calling the pass methods on a node.
NextPasses ==
    \/ \E c \in ClockClasses, p \in {SHOT} \cup KnownDevices :
            NewDevice(c, p, MaxPassDevices)
    \/ \E q \in PassPhases : SetPhase(q)
    \/ \E n \in {SHOT} \cup KnownDevices : EstablishCommonLimits(n)
    \/ \E n \in {SHOT} \cup KnownDevices : EstablishInitialAttributes(n)
    \/ Start

SpecPasses == Init /\ [][NextPasses]_vars

\* The device classes of a program that sets one Output.
SortedClasses == {"StaticDevice", "Output"}

\* Issuing Waits on the Shot and Constants on an Output, and sorting the
\* instruction lists.
NextSorting ==
    \/ \E c \in SortedClasses, p \in {SHOT} \cup KnownDevices :
            NewDevice(c, p, MaxPipelineDevices)
    \/ \E q \in IssuePhases : SetPhase(q)
    \/ \E p \in KnownDevices : OutputConstant(p, MaxIssuedInstructions)
    \/ Wait(MaxIssuedInstructions)
    \/ \E n \in Owners : SortByTime(n)
    \/ \E n \in Owners : SortedByTime(n)
    \/ \E n \in Owners : SortByQuantisedTime(n)
    \/ \E n \in Owners : SortedByQuantisedTime(n)

SpecSorting == Init /\ [][NextSorting]_vars

\* Numbering instructions: owners are built, instructions of every class are
\* constructed on every node, accepted or not, and added again by hand.
NextNumbering ==
    \/ \E c \in OwnerClasses, p \in {SHOT} \cup KnownDevices :
            NewDevice(c, p, MaxPipelineDevices)
    \/ \E q \in IssuePhases : SetPhase(q)
    \/ \E c \in InstructionClasses, p \in {SHOT} \cup KnownDevices :
            NewInstruction(c, p, MaxIssuedInstructions)
    \/ Wait(MaxIssuedInstructions)
    \/ \E p \in Owners, i \in KnownInstructions :
            AddInstruction(p, i, MaxIssuedInstructions)

SpecNumbering == Init /\ [][NextNumbering]_vars

\* Every operation that writes a child list or an instruction list, on a
\* tree of a StaticDevice and an Output.
NextGrowth ==
    \/ \E c \in SortedClasses, p \in {SHOT} \cup KnownDevices :
            NewDevice(c, p, MaxPipelineDevices)
    \/ \E d \in KnownDevices : ShotAddDevice(d)
    \/ \E p \in KnownDevices, d \in KnownDevices :
            AddDevice(p, d, MaxPipelineDevices)
    \/ \E q \in IssuePhases : SetPhase(q)
    \/ \E c \in InstructionClasses, p \in {SHOT} \cup KnownDevices :
            NewInstruction(c, p, MaxInstructions)
    \/ Wait(MaxInstructions)
    \/ \E p \in Owners, i \in KnownInstructions :
            AddInstruction(p, i, MaxInstructions)
    \/ \E n \in Owners : SortByTime(n)
    \/ Stop

SpecGrowth == Init /\ [][NextGrowth]_vars

\* The objects whose shot attribute is the Shot sh.
NodesOf(sh) == {n \in NodeIds : shot[n] = sh}

\* The device classes built below the two Shots.
TwoShotClasses == {"StaticDevice", "Output"}

\* The phases a program with two Shots asks set_phase of either for, in any
\* phase and any order; Shot.start assigns the later ones.
TwoShotPhases == {ADD_DEVICES, ESTABLISH_COMMON_LIMITS}

\* Two Shots in one program: devices are constructed below either, and the
\* phase of either is set and its passes are run, in any interleaving.
NextTwoShots ==
    \/ \E c \in TwoShotClasses, p \in ShotIds \cup KnownDevices :
            NewDevice(c, p, MaxTwoShotDevices)
    \/ \E sh \in ShotIds, q \in TwoShotPhases : SetPhaseOf(sh, q)
    \/ \E n \in ShotIds \cup KnownDevices : EstablishCommonLimits(n)
    \/ \E n \in ShotIds \cup KnownDevices : EstablishInitialAttributes(n)
    \/ \E sh \in ShotIds : StartOf(sh)

SpecTwoShots == InitTwoShots /\ [][NextTwoShots]_vars

\* The device classes built when the binding of parent, shot and pseudoclock
\* is followed down a tree: the classes of a clock tree.
AncestryClasses == ClockClasses

\* The phases set_phase of either Shot is asked for while the trees are
\* built, in any phase and any order: the phase of construction and the one
\* after it.
AncestryPhases == {ADD_DEVICES, ESTABLISH_COMMON_LIMITS}

\* Constructing devices below either of two Shots and below their devices,
\* with the phase of either Shot set in between.
NextAncestry ==
    \/ \E c \in AncestryClasses, p \in ShotIds \cup KnownDevices :
            NewDevice(c, p, MaxAncestryDevices)
    \/ \E sh \in ShotIds, q \in AncestryPhases : SetPhaseOf(sh, q)

SpecAncestry == InitTwoShots /\ [][NextAncestry]_vars

\* The state s as the initial state.
StateIs(s) ==
    /\ phase = s.phase
    /\ devices = s.devices
    /\ instructions = s.instructions
    /\ cls = s.cls
    /\ parent = s.parent
    /\ shot = s.shot
    /\ pseudoclock = s.pseudoclock
    /\ registry = s.registry
    /\ other = s.other
    /\ called = s.called
    /\ ran = s.ran
    /\ master_pseudoclock = s.master_pseudoclock
    /\ all_devices = s.all_devices
    /\ all_pseudoclocks = s.all_pseudoclocks
    /\ total_instructions = s.total_instructions
    /\ instruction_number = s.instruction_number
    /\ t = s.t
    /\ quantised_t = s.quantised_t
    /\ clock_minimum_period = s.clock_minimum_period
    /\ timebase = s.timebase
    /\ clock_minimum_trigger = s.clock_minimum_trigger
    /\ common_clock_minimum_period = s.common_clock_minimum_period
    /\ common_clock_minimum_trigger = s.common_clock_minimum_trigger
    /\ clock_period_limiting_device = s.clock_period_limiting_device
    /\ clock_trigger_limiting_device = s.clock_trigger_limiting_device
    /\ failed_starts = s.failed_starts
    /\ ENFORCE_PHASE = s.ENFORCE_PHASE
    /\ ep = s.ep
    /\ log = s.log
    /\ result = s.result
    /\ err = s.err
    /\ op = "Shot"

\* The phases the shot of the instances is in: the declared ones and one
\* that no decorated method is declared for.
InstancePhases == DeclaredPhases \cup {ESTABLISH_INITIAL_ATTRIBUTES}

RegisterInstance(i) == Apply(register_instance(Cur, i), "register_instance")

CallDecorated(i, f) ==
    /\ ep.ran[i][f] < MaxCalls
    /\ Apply(decorated_call(Cur, i, f), "call")

CheckRequiredMethodsCalled(ph) ==
    Apply(enforce_phase_check_required_methods_called(Cur, ph),
          "check_required_methods_called")

\* The controller of enforce_phase.py on the instances of one shot, whose
\* phase is an input.
InitEnforcePhase ==
    \E q \in InstancePhases : StateIs([InitState EXCEPT !.ep.phase = q])

NextEnforcePhase ==
    \/ \E i \in Instances : RegisterInstance(i)
    \/ \E i \in Instances, f \in Functions : CallDecorated(i, f)
    \/ \E ph \in InstancePhases : CheckRequiredMethodsCalled(ph)

SpecEnforcePhase == InitEnforcePhase /\ [][NextEnforcePhase]_vars

\* The classes as they are when both modules had ENFORCE_PHASE set to False
\* at the time the classes were defined.
InitUnenforced ==
    StateIs([InitState EXCEPT !.ENFORCE_PHASE = FALSE,
                              !.ep.ENFORCE_PHASE = FALSE])

\* The device class built when nothing is enforced.
UnenforcedClasses == {"StaticDevice"}

\* No node has run the exactly-once method m MaxCalls times yet.
MayRun(m) == \A n \in NodeIds : ran[n][m] < MaxCalls

\* Both controllers without enforcement: every gated operation of bases.py
\* in every phase and in any number, and the decorated functions of
\* enforce_phase.py on one instance.
NextUnenforced ==
    \/ \E c \in UnenforcedClasses, p \in {SHOT} \cup KnownDevices :
            NewDevice(c, p, MaxUnenforcedDevices)
    \/ \E q \in phase_enum : SetPhase(q)
    \/ \E n \in {SHOT} \cup KnownDevices :
            MayRun("establish_common_limits") /\ EstablishCommonLimits(n)
    \/ \E n \in {SHOT} \cup KnownDevices :
            /\ MayRun("establish_initial_attributes")
            /\ EstablishInitialAttributes(n)
    \/ Wait(MaxInstructions)
    \/ \E i \in KnownInstructions :
            MayRun("convert_timing") /\ ConvertTiming(i)
    \/ RegisterInstance(1)
    \/ \E f \in Functions : f.exactly_once /\ CallDecorated(1, f)
    \/ \E ph \in InstancePhases : CheckRequiredMethodsCalled(ph)

SpecUnenforced == InitUnenforced /\ [][NextUnenforced]_vars

\* -------------------------------------------------------------------- claims
\* The exceptions the code raises for an illegal composition (StructuralError
\* in the specification's taxonomy).
StructuralErrors == {"TypeError", "ValueError"}

\* The device object the last constructor call created.
NewestDevice == NextDevice(Cur) - 1
NewestInstruction == NextInstruction(Cur) - 1

\* The accepted-device set of each parent variant, written out variant by
\* variant.
AcceptedDeviceVariants(pc) ==
    CASE pc = "Shot" -> {"PseudoclockDevice", "StaticDevice"}
      [] pc = "Trigger" -> {"TriggerableDevice", "PseudoclockDevice"}
      [] pc = "ClockLine" -> {"ClockableDevice"}
      [] pc = "Pseudoclock" -> {"ClockLine"}
      [] pc = "PseudoclockDevice" -> {"Pseudoclock"}
      [] OTHER -> DeviceClasses

\* The accepted-instruction set of each owner variant.
AcceptedInstructionVariants(pc) ==
    CASE pc = "Shot" -> {"Wait"}
      [] pc = "StaticOutput" -> {"Static"}
      [] pc \in {"Output", "Trigger"} -> {"Function", "Constant", "Static"}
      [] OTHER -> {}

\* C1 as stated: during ADD_DEVICES, constructing a child of variant c under
\* parent p succeeds iff c is in p's accepted-device set; otherwise it fails
\* with a StructuralError and p's child list is unchanged.
C1_AcceptedIffInSet ==
    [][\A c \in DeviceClasses, p \in {SHOT} \cup KnownDevices :
        (phase = ADD_DEVICES /\ NewDevice(c, p, MaxDevices)) =>
            IF c \in AcceptedDeviceVariants(cls[p])
            THEN /\ err' = "ok"
                 /\ devices'[p] = Append(devices[p], NextDevice(Cur))
            ELSE /\ err' \in StructuralErrors
                 /\ devices'[p] = devices[p]]_vars

\* C1 amended: during ADD_DEVICES, constructing a child of variant c under
\* parent p appends the child to p's child list iff c is in p's accepted-device
\* set and the child is not a PseudoclockDevice offered to a Shot whose master
\* clock device is already recorded; otherwise the call fails with a
\* StructuralError (TypeError for the variant, ValueError for the second
\* master) and every child list is unchanged.  An appended child's constructor
\* returns normally unless the child is a ClockLine whose parent is not a
\* Pseudoclock, which raises AttributeError after the insertion.
C1_AppendedIffAccepted ==
    [][\A c \in DeviceClasses, p \in {SHOT} \cup KnownDevices :
        (phase = ADD_DEVICES /\ NewDevice(c, p, MaxDevices)) =>
            IF /\ c \in AcceptedDeviceVariants(cls[p])
               /\ ~ (/\ p = SHOT
                     /\ c = "PseudoclockDevice"
                     /\ master_pseudoclock # NoneVal)
            THEN /\ devices' =
                        [devices EXCEPT ![p] = Append(@, NextDevice(Cur))]
                 /\ err' = IF c = "ClockLine" /\ cls[p] # "Pseudoclock"
                           THEN "AttributeError" ELSE "ok"
            ELSE /\ devices' = devices
                 /\ err' = IF c \in AcceptedDeviceVariants(cls[p])
                           THEN "ValueError" ELSE "TypeError"]_vars

\* C1 witness: a plain Device offered to a Trigger during ADD_DEVICES was
\* rejected with TypeError and is not among the Trigger's children.
C1_Witness ==
    /\ op = "Device" /\ err = "TypeError" /\ phase = ADD_DEVICES
    /\ NewestDevice \in DeviceIds
    /\ cls[NewestDevice] = "Device"
    /\ parent[NewestDevice] \in DeviceIds
    /\ cls[parent[NewestDevice]] = "Trigger"
    /\ devices[parent[NewestDevice]] = << >>

\* C2 as stated: once the Shot has a phase, every phase-gated operation fails
\* with WrongPhaseError exactly when the Shot's phase differs from the phase
\* the operation declares.
C2_WrongPhaseIffPhaseDiffers ==
    [][(phase \in phase_enum) =>
           /\ \A c \in DeviceClasses, p \in {SHOT} \cup KnownDevices :
                NewDevice(c, p, MaxApiDevices) =>
                    (err' = "WrongPhaseError" <=> phase # ADD_DEVICES)
           /\ \A d \in KnownDevices :
                ShotAddDevice(d) =>
                    (err' = "WrongPhaseError" <=> phase # ADD_DEVICES)
           /\ \A p \in KnownDevices, d \in KnownDevices :
                AddDevice(p, d, MaxApiDevices) =>
                    (err' = "WrongPhaseError" <=> phase # ADD_DEVICES)
           /\ \A p \in Owners, i \in KnownInstructions :
                AddInstruction(p, i, MaxInstructions) =>
                    (err' = "WrongPhaseError" <=> phase # ADD_INSTRUCTIONS)
           /\ \A n \in {SHOT} \cup KnownDevices :
                EstablishCommonLimits(n) =>
                    (err' = "WrongPhaseError" <=> phase # ESTABLISH_COMMON_LIMITS)
           /\ \A n \in {SHOT} \cup KnownDevices :
                EstablishInitialAttributes(n) =>
                    (err' = "WrongPhaseError"
                        <=> phase # ESTABLISH_INITIAL_ATTRIBUTES)
           /\ \A c \in InstructionClasses, p \in {SHOT} \cup KnownDevices :
                NewInstruction(c, p, MaxInstructions) =>
                    (err' = "WrongPhaseError" <=> phase # ADD_INSTRUCTIONS)
           /\ Wait(MaxInstructions) =>
                    (err' = "WrongPhaseError" <=> phase # ADD_INSTRUCTIONS)
           /\ \A i \in KnownInstructions :
                ConvertTiming(i) =>
                    (err' = "WrongPhaseError" <=> phase # CONVERT_TIMING)]_vars

\* C3 as stated: a second invocation of an exactly-once operation on a node,
\* in the operation's phase, raises AlreadyCalledError and changes nothing,
\* and no node ever has the body of an exactly-once operation executed twice.
C3_SecondCallRejected ==
    [][/\ \A n \in NodeIds, m \in ExactlyOnceMethods : ran'[n][m] <= 1
       /\ \A n \in {SHOT} \cup KnownDevices :
            (/\ EstablishCommonLimits(n)
             /\ phase = ESTABLISH_COMMON_LIMITS
             /\ "establish_common_limits" \in called[n]) =>
                (/\ err' = "AlreadyCalledError"
                 /\ UNCHANGED <<ran, called, phase, devices>>)
       /\ \A n \in {SHOT} \cup KnownDevices :
            (/\ EstablishInitialAttributes(n)
             /\ phase = ESTABLISH_INITIAL_ATTRIBUTES
             /\ "establish_initial_attributes" \in called[n]) =>
                (/\ err' = "AlreadyCalledError"
                 /\ UNCHANGED <<ran, called, phase, devices>>)
       /\ \A i \in KnownInstructions :
            (/\ ConvertTiming(i)
             /\ phase = CONVERT_TIMING
             /\ "convert_timing" \in called[i]) =>
                (/\ err' = "AlreadyCalledError"
                 /\ UNCHANGED <<ran, called, phase, instructions>>)]_vars

\* The exactly-once operations of phase ph that node n's variant defines.
OperationsOf(n, ph) ==
    IF n \in ShotIds \/ n \in DeviceIds
    THEN CASE ph = ESTABLISH_COMMON_LIMITS -> {"establish_common_limits"}
           [] ph = ESTABLISH_INITIAL_ATTRIBUTES ->
                {"establish_initial_attributes"}
           [] OTHER -> {}
    ELSE IF ph = CONVERT_TIMING THEN {"convert_timing"} ELSE {}

\* C4: set_phase, called while some node of the Shot lacks an exactly-once
\* operation of the current phase, fails with NotCalledError and leaves the
\* phase as it was.
C4_NotCalledKeepsPhase ==
    [][\A q \in phase_enum :
        (/\ SetPhase(q)
         /\ \E n \in {SHOT} \cup KnownDevices \cup KnownInstructions :
                OperationsOf(n, phase) \ called[n] # {}) =>
            (err' = "NotCalledError" /\ phase' = phase)]_vars

\* C4 witness: set_phase failed with NotCalledError in ESTABLISH_COMMON_LIMITS
\* while a device of the tree had not had establish_common_limits invoked.
C4_Witness ==
    /\ op = "set_phase" /\ err = "NotCalledError"
    /\ phase = ESTABLISH_COMMON_LIMITS
    /\ \E d \in KnownDevices : "establish_common_limits" \notin called[d]
    /\ "establish_common_limits" \in called[SHOT]

\* C5 as stated: once the Shot has a phase, the phase only ever stays or
\* moves to its immediate successor.  (Shot.start assigns
\* ESTABLISH_COMMON_LIMITS first and then the successors in turn: a start step
\* that reaches the assignment is in order when it begins no later than
\* ESTABLISH_COMMON_LIMITS.)
C5_PhaseOnlyAdvancesByOne ==
    [][(phase \in phase_enum) =>
        IF op' = "start" /\ err' # "RecursionError"
        THEN phase <= ESTABLISH_COMMON_LIMITS
        ELSE phase' = phase \/ phase' = phase + 1]_vars

\* A tree built legally: every constructor call returned normally and no
\* device was added a second time.
LegalTree ==
    /\ registry = {SHOT} \cup KnownDevices
    /\ \A d \in KnownDevices :
        /\ ~ (cls[d] = "ClockLine" /\ cls[parent[d]] # "Pseudoclock")
        /\ Cardinality({<<n, k>> \in NodeIds \X (1..MaxClockDevices) :
                            k <= Len(devices[n]) /\ devices[n][k] = d}) = 1
    /\ master_pseudoclock # NoneVal =>
            \E k \in 1..Len(devices[SHOT]) :
                devices[SHOT][k] = master_pseudoclock

\* C6 as stated: on a legally built tree start() returns without error in
\* phase ADD_INSTRUCTIONS, having run establish_common_limits and
\* establish_initial_attributes exactly once on the Shot and on every device.
C6_StartRunsBothPasses ==
    [][(/\ Start
        /\ phase = ADD_DEVICES
        /\ LegalTree
        /\ \A n \in NodeIds : called[n] = {}) =>
            (/\ err' = "ok"
             /\ phase' = ADD_INSTRUCTIONS
             /\ \A n \in {SHOT} \cup KnownDevices :
                    /\ ran'[n]["establish_common_limits"] = 1
                    /\ ran'[n]["establish_initial_attributes"] = 1)]_vars

\* C7 as stated: stop() called in ADD_INSTRUCTIONS returns in phase
\* CHECK_INSTRUCTIONS_VALID, having invoked convert_timing exactly once on
\* every instruction.
C7_StopConvertsEveryInstruction ==
    [][(Stop /\ phase = ADD_INSTRUCTIONS) =>
            (/\ err' = "ok"
             /\ phase' = CHECK_INSTRUCTIONS_VALID
             /\ \A i \in KnownInstructions :
                    ran'[i]["convert_timing"] = 1)]_vars

\* The PseudoclockDevices in the Shot's child list, by position.
ShotPseudoclockDevices ==
    {k \in 1..Len(devices[SHOT]) : cls[devices[SHOT][k]] = "PseudoclockDevice"}

\* C8: the Shot's child list never holds more than one PseudoclockDevice, and
\* a call of Shot.add_device with a PseudoclockDevice while the list holds one
\* (through a constructor in ADD_DEVICES, or directly in any phase) fails with
\* ValueError and leaves the list and master_pseudoclock unchanged.
C8_AtMostOneMaster ==
    [][/\ Cardinality(ShotPseudoclockDevices') <= 1
       /\ ShotPseudoclockDevices # {} =>
            /\ (phase = ADD_DEVICES
                    /\ NewDevice("PseudoclockDevice", SHOT, MaxDevices)) =>
                  (/\ err' = "ValueError"
                   /\ UNCHANGED <<devices, master_pseudoclock>>)
            /\ \A d \in KnownDevices :
                (cls[d] = "PseudoclockDevice" /\ ShotAddDevice(d)) =>
                  (/\ err' = "ValueError"
                   /\ UNCHANGED <<devices, master_pseudoclock>>)]_vars

\* C8 witness: a second PseudoclockDevice was constructed under the Shot and
\* rejected with ValueError; the Shot's list holds the first one only.
C8_Witness ==
    /\ op = "Device" /\ err = "ValueError"
    /\ Cardinality(ShotPseudoclockDevices) = 1
    /\ NewestDevice \in DeviceIds
    /\ cls[NewestDevice] = "PseudoclockDevice"
    /\ parent[NewestDevice] = SHOT
    /\ \A k \in 1..Len(devices[SHOT]) : devices[SHOT][k] # NewestDevice
    /\ master_pseudoclock # NewestDevice

\* The nearest Pseudoclock among node n and its ancestors, None without one.
RECURSIVE NearestPseudoclock(_)
NearestPseudoclock(n) ==
    IF n \in ShotIds THEN NoneVal
    ELSE IF cls[n] = "Pseudoclock" THEN n
    ELSE NearestPseudoclock(parent[n])

\* C9: after a successful device construction under parent p the child is
\* the last element of p's child list, child.parent = p, child.shot = p.shot
\* and child.pseudoclock is the child itself if it is a Pseudoclock and p's
\* pseudoclock otherwise; in every reachable state each device's pseudoclock
\* is its nearest Pseudoclock ancestor-or-self, None without one.
C9_PseudoclockIsNearestAncestor ==
    /\ [](\A d \in KnownDevices : pseudoclock[d] = NearestPseudoclock(d))
    /\ [][\A c \in AncestryClasses, p \in ShotIds \cup KnownDevices :
            (/\ op' = "Device" /\ err' = "ok"
             /\ NewDevice(c, p, MaxAncestryDevices)) =>
                LET child == NextDevice(Cur) IN
                /\ devices'[p] = Append(devices[p], child)
                /\ cls'[child] = c
                /\ parent'[child] = p
                /\ shot'[child] = shot[p]
                /\ pseudoclock'[child] = IF c = "Pseudoclock" THEN child
                                         ELSE pseudoclock[p]]_vars

\* C9 witness: with a device below each of the two Shots, a device that is
\* no Pseudoclock was constructed under a parent that is no Pseudoclock, and
\* its pseudoclock is the Pseudoclock above that parent; it belongs to its
\* parent's Shot, the second one.
C9_Witness ==
    /\ op = "Device" /\ err = "ok"
    /\ NewestDevice \in DeviceIds
    /\ parent[NewestDevice] \in DeviceIds
    /\ cls[NewestDevice] # "Pseudoclock"
    /\ cls[parent[NewestDevice]] # "Pseudoclock"
    /\ pseudoclock[NewestDevice] \in DeviceIds
    /\ pseudoclock[NewestDevice] = parent[parent[NewestDevice]]
    /\ devices[parent[NewestDevice]] = <<NewestDevice>>
    /\ shot[NewestDevice] = OTHER_SHOT
    /\ shot[parent[NewestDevice]] = OTHER_SHOT
    /\ \E d \in KnownDevices : shot[d] = SHOT

\* C10 as stated: during ADD_INSTRUCTIONS, constructing an instruction of
\* variant c under an owner (the Shot or an Output variant) succeeds iff c is
\* in the owner's accepted-instruction set; otherwise it fails with a
\* StructuralError and the owner's instruction list and the Shot's instruction
\* counter are unchanged.
C10_InstructionAcceptedIffInSet ==
    [][\A c \in InstructionClasses, p \in {SHOT} \cup KnownDevices :
        (/\ phase = ADD_INSTRUCTIONS
         /\ AcceptedInstructionVariants(cls[p]) # {}
         /\ NewInstruction(c, p, MaxInstructions)) =>
            IF c \in AcceptedInstructionVariants(cls[p])
            THEN /\ err' = "ok"
                 /\ instructions'[p] =
                        Append(instructions[p], NextInstruction(Cur))
            ELSE /\ err' \in StructuralErrors
                 /\ instructions'[p] = instructions[p]
                 /\ total_instructions' = total_instructions]_vars

\* The instruction objects whose construction was rejected.
RejectedInstructions ==
    {i \in InstructionIds : cls[i] # "none"} \ KnownInstructions

\* C11: the instruction numbers of the successfully created instructions are
\* pairwise distinct, increase in creation order and are exactly
\* 0..total_instructions-1; a rejected construction took no number.
C11_InstructionNumbersDense ==
    /\ {instruction_number[i] : i \in KnownInstructions}
            = 0..(total_instructions - 1)
    /\ \A i, j \in KnownInstructions :
            i < j => instruction_number[i] < instruction_number[j]
    /\ Cardinality(KnownInstructions) = total_instructions
    /\ \A i \in RejectedInstructions : instruction_number[i] = Unset

\* C11 witness: two instructions were created on different owners with a
\* rejected construction between them, and the later one has number 1.
C11_Witness ==
    \E i, j, k \in InstructionIds :
        /\ i < j /\ j < k
        /\ i \in KnownInstructions /\ k \in KnownInstructions
        /\ j \in RejectedInstructions
        /\ parent[i] # parent[k]
        /\ instruction_number[i] = 0 /\ instruction_number[k] = 1

\* The devices below node r in depth-first pre-order, a Pseudoclock child and
\* everything below it left out.
RECURSIVE ClockDomainPreorder(_)
ClockDomainPreorder(r) ==
    LET RECURSIVE walk(_)
        walk(k) ==
            IF k > Len(devices[r]) THEN << >>
            ELSE LET d == devices[r][k] IN
                 IF isinstance(cls[d], "Pseudoclock") THEN walk(k + 1)
                 ELSE (<<d>> \o ClockDomainPreorder(d)) \o walk(k + 1)
    IN  walk(1)

\* C12 as stated: for every node r whose child lists hold no cycle,
\* descendant_devices(r, False) is the depth-first pre-order list of the
\* descendants of r reached without entering a Pseudoclock.
C12_DomainTraversal ==
    \A r \in {SHOT} \cup KnownDevices :
        ~ recursion_unbounded(Cur, r) =>
            descendant_devices(Cur, r, FALSE) = ClockDomainPreorder(r)

\* Node r is a proper ancestor of device d.
RECURSIVE IsAncestor(_, _)
IsAncestor(r, d) ==
    \/ parent[d] = r
    \/ parent[d] \in DeviceIds /\ IsAncestor(r, parent[d])

Descendants(r) == {d \in KnownDevices : IsAncestor(r, d)}

\* C13 as stated: on a legally built tree, for every node r,
\* descendant_devices(r, True) holds every descendant device of r, the
\* Pseudoclocks and what is below them included, each exactly once.
C13_FullTraversal ==
    LegalTree =>
        \A r \in {n \in {SHOT} \cup KnownDevices :
                        ~ recursion_unbounded(Cur, n)} :
            LET ds == descendant_devices(Cur, r, TRUE) IN
            /\ {ds[k] : k \in 1..Len(ds)} = Descendants(r)
            /\ Len(ds) = Cardinality(Descendants(r))

\* C14 as stated: descendant_instructions(shot, True) holds every instruction
\* of the tree (the Shot's Waits and the instructions of every Output, at any
\* depth) exactly once.
C14_AllInstructionsReturned ==
    LET is == descendant_instructions(Cur, SHOT, TRUE) IN
    /\ {is[k] : k \in 1..Len(is)} = KnownInstructions
    /\ Len(is) = Cardinality(KnownInstructions)

\* The ClockableDevices in the clock domain of node l: those among its
\* descendants reached without entering a Pseudoclock.
DomainClockables(l) ==
    LET ds == ClockDomainPreorder(l) IN
    {d \in {ds[k] : k \in 1..Len(ds)} : isinstance(cls[d], "ClockableDevice")}

\* The ClockLines whose establish_common_limits has returned and which clock
\* at least one ClockableDevice.
EstablishedClockLines ==
    {l \in KnownDevices :
        /\ cls[l] = "ClockLine"
        /\ hasattr(timebase, l)
        /\ common_clock_minimum_period[l] \notin {Unset, NoneVal}
        /\ DomainClockables(l) # {}}

Maximum(S) == CHOOSE x \in S : \A y \in S : y <= x
Ceiling(m, T) == (m + T - 1) \div T

\* C15 as stated: after establish_common_limits each ClockLine's common
\* minimum period is ceil(m / T) * T, with T the timebase of the owning
\* Pseudoclock and m the largest clock_minimum_period of the ClockableDevices
\* in the line's clock domain.
C15_CommonPeriodRoundedUp ==
    \A l \in EstablishedClockLines :
        LET T == timebase[pseudoclock[l]]
            m == Maximum({clock_minimum_period[d] : d \in DomainClockables(l)})
        IN  common_clock_minimum_period[l] = Ceiling(m, T) * T

\* C16 as stated: after establish_common_limits each ClockLine's common
\* minimum trigger is the largest clock_minimum_trigger of the
\* ClockableDevices in the line's clock domain, and the recorded
\* trigger-limiting device is one of them attaining it.
C16_CommonTriggerIsMaximum ==
    \A l \in EstablishedClockLines :
        LET m == Maximum({clock_minimum_trigger[d] :
                            d \in DomainClockables(l)})
        IN  /\ common_clock_minimum_trigger[l] = m
            /\ clock_trigger_limiting_device[l] \in DomainClockables(l)
            /\ clock_minimum_trigger[clock_trigger_limiting_device[l]] = m

\* C17 as stated: once convert_timing has run on an instruction, its
\* quantised_t is defined and is a whole multiple of the timebase of the
\* instruction's Pseudoclock.
C17_QuantisedTimeOnGrid ==
    \A i \in KnownInstructions :
        ran[i]["convert_timing"] = 1 =>
            /\ quantised_t[i] # NoneVal
            /\ pseudoclock[i] \in DeviceIds =>
                    quantised_t[i] % timebase[pseudoclock[i]] = 0

\* Two Waits of the Shot were issued with the same nominal time.
DuplicateWaits ==
    \E i, j \in KnownInstructions :
        /\ i # j
        /\ cls[i] = "Wait" /\ cls[j] = "Wait"
        /\ t[i] = t[j]

\* C18 as stated: with two Waits of identical time issued, stop() fails with
\* a StructuralError and no instruction's convert_timing has been invoked.
C18_DuplicateWaitsRejected ==
    [][(Stop /\ phase = ADD_INSTRUCTIONS /\ DuplicateWaits) =>
            (/\ err' \in StructuralErrors
             /\ ran' = ran
             /\ called' = called)]_vars

\* C19: when a pass raises inside Shot.start, the phase is left at the phase
\* of the failing pass (ESTABLISH_COMMON_LIMITS when establish_common_limits
\* raised, ESTABLISH_INITIAL_ATTRIBUTES when establish_initial_attributes
\* did) and ADD_INSTRUCTIONS is not entered; when set_phase raises
\* NotCalledError the phase is what it was before the call.
C19_FailureLeavesPhase ==
    [][/\ (Start /\ err' # "ok" /\ start_entry(Cur, SHOT).err = "ok") =>
            /\ phase' # ADD_INSTRUCTIONS
            /\ phase' =
                IF establish_common_limits(start_entry(Cur, SHOT), SHOT).err # "ok"
                THEN ESTABLISH_COMMON_LIMITS
                ELSE ESTABLISH_INITIAL_ATTRIBUTES
       /\ \A q \in phase_enum :
            (SetPhase(q) /\ err' = "NotCalledError") => phase' = phase]_vars

\* C19 witness: Shot.start failed in its second pass and left the phase at
\* ESTABLISH_INITIAL_ATTRIBUTES.
C19_Witness ==
    /\ op = "start" /\ err # "ok"
    /\ phase = ESTABLISH_INITIAL_ATTRIBUTES
    /\ ran[SHOT]["establish_common_limits"] = 1

\* C20: once a call of Shot.start has failed, every later call of Shot.start
\* fails too and does not bring the phase to ADD_INSTRUCTIONS.
C20_FailedStartStaysFailed ==
    [][(Start /\ failed_starts >= 1) =>
            /\ err' # "ok"
            /\ phase' = ADD_INSTRUCTIONS => phase = ADD_INSTRUCTIONS]_vars

\* C20 witness: Shot.start has failed twice on the same Shot.
C20_Witness ==
    /\ op = "start" /\ err # "ok"
    /\ failed_starts = MaxFailedStarts

\* C22 as stated: a Static constructed during ADD_INSTRUCTIONS on an Output
\* that is not a StaticOutput is rejected and leaves the Output's instruction
\* list unchanged.
C22_StaticOnlyOnStaticOutput ==
    [][\A p \in KnownDevices :
        (/\ phase = ADD_INSTRUCTIONS
         /\ isinstance(cls[p], "Output")
         /\ ~ isinstance(cls[p], "StaticOutput")
         /\ NewInstruction("Static", p, MaxNumberedInstructions)) =>
            (err' # "ok" /\ instructions'[p] = instructions[p])]_vars

\* C23 as stated: during ADD_DEVICES every parent whose allowed_devices holds
\* TriggerableDevice accepts a ClockableDevice child.
C23_ClockableIsTriggerable ==
    [][\A p \in {SHOT} \cup KnownDevices :
        (/\ phase = ADD_DEVICES
         /\ "TriggerableDevice" \in allowed_devices(cls[p])
         /\ NewDevice("ClockableDevice", p, MaxDevices)) =>
            (/\ err' = "ok"
             /\ devices'[p] = Append(devices[p], NextDevice(Cur)))]_vars

\* The places (node, position) at which device d stands in a child list.
Occurrences(d) ==
    {<<n, k>> \in NodeIds \X (1..MaxClockDevices) :
        k <= Len(devices[n]) /\ devices[n][k] = d}

\* C24 as stated: over device constructions and add_device calls, the parent,
\* shot and pseudoclock references of a constructed device never change, and every
\* constructed device stands in the child list of its parent, once, and in no
\* other child list.
C24_OwnershipExclusive ==
    [][/\ \A d \in KnownDevices :
            /\ parent'[d] = parent[d]
            /\ shot'[d] = shot[d]
            /\ pseudoclock'[d] = pseudoclock[d]
       /\ \A d \in KnownDevices' :
            /\ Cardinality(Occurrences(d)') = 1
            /\ \A o \in Occurrences(d)' : o[1] = parent'[d]]_vars

\* C25 as stated: whenever establish_initial_attributes is recorded on some
\* node, establish_common_limits is recorded on every device of the Shot, and
\* whenever an instruction exists, both passes are recorded on every device.
C25_PassesInOrder ==
    /\ (\E n \in NodeIds : "establish_initial_attributes" \in called[n]) =>
            \A d \in KnownDevices : "establish_common_limits" \in called[d]
    /\ KnownInstructions # {} =>
            \A d \in KnownDevices :
                /\ "establish_common_limits" \in called[d]
                /\ "establish_initial_attributes" \in called[d]

\* How often x stands in the list q.
Count(q, x) == Cardinality({k \in 1..Len(q) : q[k] = x})

\* C30: no operation removes a device from a child list or an instruction
\* from an instruction list: every element of every list of a state is in the
\* same list, as often, in the next state.
C30_TreeOnlyGrows ==
    [][\A n \in NodeIds :
        /\ \A k \in 1..Len(devices[n]) :
                Count(devices'[n], devices[n][k])
                    >= Count(devices[n], devices[n][k])
        /\ \A k \in 1..Len(instructions[n]) :
                Count(instructions'[n], instructions[n][k])
                    >= Count(instructions[n], instructions[n][k])]_vars

\* C30 witness: Shot.stop was called on a tree that holds two devices and an
\* instruction on one of them, all still in their lists.
C30_Witness ==
    /\ op = "stop"
    /\ \E d, o \in KnownDevices, i \in KnownInstructions :
        /\ Count(devices[SHOT], d) = 1
        /\ Count(devices[d], o) = 1
        /\ Count(instructions[o], i) = 1

\* The positions of the log at which the event <<event, method, n>> stands.
LogPositions(event, method, n) ==
    {k \in 1..Len(log) : log[k] = <<event, method, n>>}

\* C26: whenever a ClockLine begins to compute its own common limits,
\* establish_common_limits has been invoked and has returned on every device
\* below the ClockLine (its children and, recursively, their descendants).
C26_LimitPassPostOrder ==
    \A l \in KnownDevices :
        \A k \in LogPositions("computed", "establish_common_limits", l) :
            \A d \in Descendants(l) :
                \E i, j \in 1..(k - 1) :
                    /\ i < j
                    /\ log[i] = <<"invoked", "establish_common_limits", d>>
                    /\ log[j] = <<"returned", "establish_common_limits", d>>

\* C26 witness: a ClockLine with a child and a grandchild has computed its
\* common limits and establish_common_limits has returned on it.
C26_Witness ==
    \E l, d, e \in KnownDevices :
        /\ cls[l] = "ClockLine"
        /\ parent[d] = l /\ parent[e] = d
        /\ LogPositions("computed", "establish_common_limits", l) # {}
        /\ LogPositions("returned", "establish_common_limits", l) # {}

\* The nodes on which the last operation recorded a call of
\* establish_initial_attributes, in the order of the records.
AttributePassOrder ==
    LET e == SelectSeq(log, LAMBDA x :
                x[1] = "invoked" /\ x[2] = "establish_initial_attributes")
    IN  [k \in 1..Len(e) |-> e[k][3]]

\* The position of device d in the child list of its parent.
ChildIndex(d) ==
    CHOOSE k \in 1..Len(devices[parent[d]]) : devices[parent[d]][k] = d

\* C27: in the attribute pass every device visited below the node the pass
\* was invoked on is recorded after its parent, and visited siblings are
\* recorded in the order of their parent's child list.
C27_AttributePassPreOrder ==
    LET order == AttributePassOrder IN
    /\ \A k \in 2..Len(order) :
            \E j \in 1..(k - 1) : order[j] = parent[order[k]]
    /\ \A j, k \in 2..Len(order) :
            (/\ j < k
             /\ parent[order[j]] = parent[order[k]]) =>
                ChildIndex(order[j]) < ChildIndex(order[k])

\* C27 witness: the attribute pass was invoked on a node with two children
\* and recorded the node and then both children.
C27_Witness ==
    LET order == AttributePassOrder IN
    /\ Len(order) >= 3
    /\ parent[order[2]] = order[1]
    /\ \E k \in 3..Len(order) : parent[order[k]] = order[1]

\* The values establish_common_limits finalises on the ClockLines, in the
\* state record s.
CommonLimits(s) ==
    <<s.common_clock_minimum_period, s.common_clock_minimum_trigger,
      s.clock_period_limiting_device, s.clock_trigger_limiting_device>>

\* C28: establish_initial_attributes, called on a node or as the second pass
\* of Shot.start, leaves every ClockLine's common minimum period, common
\* minimum trigger and limiting devices as establish_common_limits left them.
C28_AttributePassKeepsLimits ==
    [][/\ \A n \in {SHOT} \cup KnownDevices :
            EstablishInitialAttributes(n) =>
                CommonLimits(Cur)' = CommonLimits(Cur)
       /\ Start =>
            CommonLimits(Cur)' =
                CommonLimits(establish_common_limits(start_entry(Cur, SHOT), SHOT))
      ]_vars

\* C28 witness: establish_initial_attributes has run on a ClockLine whose
\* common limits establish_common_limits had computed.
C28_Witness ==
    /\ op = "establish_initial_attributes"
    /\ \E l \in KnownDevices :
        /\ cls[l] = "ClockLine"
        /\ LogPositions("returned", "establish_initial_attributes", l) # {}
        /\ common_clock_minimum_period[l] > 0
        /\ clock_period_limiting_device[l] \in DeviceIds

\* The list q is ordered by key, elements of equal key standing in increasing
\* instruction_number.
OrderedByKey(q, key) ==
    \A j, k \in 1..Len(q) :
        j < k =>
            \/ key[q[j]] < key[q[k]]
            \/ /\ key[q[j]] = key[q[k]]
               /\ instruction_number[q[j]] < instruction_number[q[k]]

\* The lists p and q hold the same elements equally often.
SameElements(p, q) == \A x \in NodeIds : Count(p, x) = Count(q, x)

\* C29 as stated: sort_by_time, given the Waits or an Output's instruction
\* list, and sort_by_quantised_time, given an Output's instruction list, leave
\* the list ordered by the time key, instructions of equal key in increasing
\* instruction_number; sorted_by_time and sorted_by_quantised_time return such
\* a list of the same instructions and leave the list they are given as it
\* was.
C29_SortsAreStable ==
    [][\A n \in Owners :
        /\ SortByTime(n) =>
                /\ err' = "ok"
                /\ OrderedByKey(instructions'[n], t)
                /\ SameElements(instructions'[n], instructions[n])
        /\ SortedByTime(n) =>
                /\ err' = "ok"
                /\ OrderedByKey(result', t)
                /\ SameElements(result', instructions[n])
                /\ instructions' = instructions
        /\ (n # SHOT /\ SortByQuantisedTime(n)) =>
                /\ err' = "ok"
                /\ OrderedByKey(instructions'[n], quantised_t)
                /\ SameElements(instructions'[n], instructions[n])
        /\ (n # SHOT /\ SortedByQuantisedTime(n)) =>
                /\ err' = "ok"
                /\ OrderedByKey(result', quantised_t)
                /\ SameElements(result', instructions[n])
                /\ instructions' = instructions]_vars

\* The phase-controller state of the Shot sh: its phase, its entry of
\* __instances_by_shot and the exactly-once records of its nodes.
ControllerState(sh) ==
    <<Shot_getattr(Cur, sh, "phase"), Shot_getattr(Cur, sh, "registry"),
      [n \in NodesOf(sh) |-> called[n]]>>

\* The other one of the two Shots.
Peer(sh) == IF sh = SHOT THEN OTHER_SHOT ELSE SHOT

\* A step that is an operation on the Shot sh or on one of its nodes: a
\* device constructed below it, its phase set, a pass run on it.
OperationOn(sh) ==
    \/ \E c \in TwoShotClasses, p \in NodesOf(sh) \cap (ShotIds \cup KnownDevices) :
            NewDevice(c, p, MaxTwoShotDevices)
    \/ \E q \in phase_enum : SetPhaseOf(sh, q)
    \/ \E n \in NodesOf(sh) \cap (ShotIds \cup KnownDevices) :
            EstablishCommonLimits(n) \/ EstablishInitialAttributes(n)
    \/ StartOf(sh)

\* C21: with two Shots, an operation on one Shot or on its nodes leaves the
\* phase, the registry and the exactly-once records of the other Shot
\* unchanged, and set_phase on a Shot raises NotCalledError exactly when one
\* of that Shot's own nodes lacks an exactly-once operation of its phase.
C21_ControllerStatePerShot ==
    [][\A sh \in ShotIds :
        /\ OperationOn(Peer(sh)) =>
                ControllerState(sh)' = ControllerState(sh)
        /\ \A q \in phase_enum :
            SetPhaseOf(sh, q) =>
                (err' = "NotCalledError" <=>
                    \E n \in NodesOf(sh) :
                        OperationsOf(n, Shot_getattr(Cur, sh, "phase"))
                            \ called[n] # {})]_vars

\* C21 witness: both Shots are in ESTABLISH_COMMON_LIMITS, the pass has just
\* been recorded on a device of the second Shot, and a device of the first
\* Shot has no record of it.
C21_Witness ==
    /\ op = "establish_common_limits"
    /\ phase = ESTABLISH_COMMON_LIMITS
    /\ other.phase = ESTABLISH_COMMON_LIMITS
    /\ \E a \in KnownDevices \cap NodesOf(SHOT) :
            "establish_common_limits" \notin called[a]
    /\ \E b \in KnownDevices \cap NodesOf(OTHER_SHOT) :
            LogPositions("invoked", "establish_common_limits", b) # {}

\* C31 as stated: set_phase raises NotCalledError only for a node that lacks
\* an exactly-once operation its own variant defines (convert_timing for an
\* instruction, the two device passes for a device or the Shot); in
\* particular, once convert_timing is recorded on every instruction of the
\* Shot, set_phase(CHECK_INSTRUCTIONS_VALID) out of CONVERT_TIMING does not
\* raise it.
C31_ExitPossibleWhenDone ==
    [][/\ (/\ phase = CONVERT_TIMING
           /\ \A i \in KnownInstructions : ran[i]["convert_timing"] = 1
           /\ SetPhase(CHECK_INSTRUCTIONS_VALID)) =>
                err' # "NotCalledError"
       /\ \A q \in phase_enum :
            (SetPhase(q) /\ err' = "NotCalledError") =>
                \E n \in registry :
                    OperationsOf(n, phase) \ called[n] # {}]_vars

\* The nodes in the child-device list or the instruction list of node n.
ListedIn(n) ==
    {devices[n][k] : k \in 1..Len(devices[n])}
        \cup {instructions[n][k] : k \in 1..Len(instructions[n])}

\* The nodes reachable from the nodes of S through those lists, S included.
RECURSIVE ReachableFrom(_)
ReachableFrom(S) ==
    LET T == S \cup UNION {ListedIn(n) : n \in S}
    IN  IF T = S THEN S ELSE ReachableFrom(T)

\* C32 as stated: the nodes set_phase checks, the Shot's registry, are
\* exactly the Shot and the nodes reachable from it through the child-device
\* and instruction lists; a device or instruction whose insertion was
\* rejected is not among them.
C32_RegistryIsReachableNodes == registry = ReachableFrom({SHOT})

\* The positions of the Shot's child list that hold a PseudoclockDevice.
MasterPositions(ds) ==
    {k \in 1..Len(ds) : isinstance(cls[ds[k]], "PseudoclockDevice")}

\* C33 as stated: over device constructions and Shot.add_device calls in any
\* phase, master_pseudoclock is None exactly when the Shot's child list holds
\* no PseudoclockDevice and is otherwise the only PseudoclockDevice of that
\* list, and a Shot.add_device call that raises leaves master_pseudoclock as
\* it was.
C33_MasterMatchesChildList ==
    [][/\ (master_pseudoclock' = NoneVal) <=>
                (MasterPositions(devices[SHOT])' = {})
       /\ \A k \in MasterPositions(devices[SHOT])' :
                devices'[SHOT][k] = master_pseudoclock'
       /\ Cardinality(MasterPositions(devices[SHOT])') <= 1
       /\ \A d \in KnownDevices :
            (ShotAddDevice(d) /\ err' # "ok") =>
                master_pseudoclock' = master_pseudoclock]_vars

\* The operations that are themselves methods decorated with enforce_phase
\* (Shot.add_device is an undecorated override that calls one).
GatedOperations ==
    {"Device", "Instruction", "wait", "constant", "convert_timing",
     "establish_common_limits", "establish_initial_attributes"}

\* The program's state: every variable but the record of the last operation.
ProgramState ==
    <<phase, devices, instructions, cls, parent, shot, pseudoclock, registry,
      other, called, ran, master_pseudoclock, all_devices, all_pseudoclocks,
      total_instructions, instruction_number, t, quantised_t,
      clock_minimum_period, timebase, clock_minimum_trigger,
      common_clock_minimum_period, common_clock_minimum_trigger,
      clock_period_limiting_device, clock_trigger_limiting_device,
      failed_starts>>

\* C34: a call rejected with WrongPhaseError leaves the exactly-once records,
\* the registry and the lists of the tree as they were, and when the call is
\* of a decorated method nothing of the program's state changes, so that an
\* exactly-once operation rejected in the wrong phase is still uncalled when
\* its phase comes.
C34_WrongPhaseChangesNothing ==
    [][err' = "WrongPhaseError" =>
        /\ called' = called /\ ran' = ran /\ registry' = registry
        /\ devices' = devices /\ instructions' = instructions
        /\ phase' = phase
        /\ op' \in GatedOperations => ProgramState' = ProgramState]_vars

\* C34 witness: establish_common_limits has just been rejected with
\* WrongPhaseError on a tree with a device, in ADD_DEVICES, and no node has a
\* record of it.
C34_Witness ==
    /\ op = "establish_common_limits" /\ err = "WrongPhaseError"
    /\ phase = ADD_DEVICES
    /\ KnownDevices # {}
    /\ \A n \in {SHOT} \cup KnownDevices :
            "establish_common_limits" \notin called[n]

\* C35: in the controller of enforce_phase.py the wrapped function runs
\* before the phase test and the exactly-once test, so a call that raises
\* WrongPhaseError or AlreadyCalledError has run the function once more.
C35_FunctionRunsBeforeChecks ==
    [][\A i \in Instances, f \in Functions :
        (/\ CallDecorated(i, f)
         /\ err' \in {"WrongPhaseError", "AlreadyCalledError"}) =>
            ep'.ran[i][f] = ep.ran[i][f] + 1]_vars

\* C35 witness: a second call of an exactly-once function in its own phase
\* has raised AlreadyCalledError and the function has run twice.
C35_Witness ==
    /\ op = "call" /\ err = "AlreadyCalledError"
    /\ \E i \in Instances, f \in Functions :
        /\ f.exactly_once /\ f.phase = ep.phase
        /\ f \in ep.called_methods[i]
        /\ ep.ran[i][f] = 2

\* C36: with ENFORCE_PHASE false when the classes are defined, no operation
\* raises WrongPhaseError or AlreadyCalledError in any phase, and neither
\* set_phase nor check_required_methods_called raises NotCalledError.
C36_NothingEnforced ==
    err \notin {"WrongPhaseError", "AlreadyCalledError", "NotCalledError"}

\* C36 witness: a device has had establish_common_limits run twice, in a phase
\* other than ESTABLISH_COMMON_LIMITS, and an exactly-once function of
\* enforce_phase.py declared for another phase than the shot's has run twice.
C36_Witness ==
    /\ ~ ENFORCE_PHASE /\ ~ ep.ENFORCE_PHASE
    /\ phase # ESTABLISH_COMMON_LIMITS
    /\ op = "establish_common_limits" /\ err = "ok"
    /\ \E d \in KnownDevices : ran[d]["establish_common_limits"] = 2
    /\ \E f \in Functions :
        f.exactly_once /\ f.phase # ep.phase /\ ep.ran[1][f] = 2

\* C37 as stated: every ClockLine in the tree has a Pseudoclock as its parent
\* and so has a timebase and a minimum period of its own, and every
\* Pseudoclock in the tree has a PseudoclockDevice as its parent.
C37_ClockLinesBelowPseudoclocks ==
    \A d \in ReachableFrom({SHOT}) \cap DeviceIds :
        /\ isinstance(cls[d], "ClockLine") =>
            /\ isinstance(cls[parent[d]], "Pseudoclock")
            /\ hasattr(timebase, d)
            /\ hasattr(clock_minimum_period, d)
        /\ isinstance(cls[d], "Pseudoclock") =>
            isinstance(cls[parent[d]], "PseudoclockDevice")
====
